---- MODULE Spec2Model ----
(***************************************************************************)
(* A model of programmatic_html_generator.py: the keyword loop of          *)
(* generate (grouping, pick_products, unique_slug), the pure helpers they  *)
(* use (norm, slugify, short_title), the IndexNow batch submitter          *)
(* submit_indexnow, the chunking of listings and sitemaps (chunked,        *)
(* write_static_pages, write_sitemap), the related-pages map               *)
(* (build_related_map), the feature collage and its seeded random sources, *)
(* the settings main builds, and the files a whole run of generate writes. *)
(*                                                                         *)
(* Python strings are modelled as sequences of one-character strings, so   *)
(* that the text conversions (strip, lower-casing, regex substitution,     *)
(* decimal formatting) are computed and not assumed.                       *)
(***************************************************************************)
EXTENDS Integers, Sequences, FiniteSets, TLC

VARIABLES
    \* ---- generate: the keyword loop ----
    grouped,        \* load_products' dict, as the sequence of its items in insertion order
    keywords,       \* generate's keywords argument (the keyword filter)
    requested,      \* generate's set of normalized requested keywords
    top_n,          \* generate's top_n argument
    ordered_groups, \* sorted(grouped.items(), key=norm(keyword))
    builds,         \* generate's list of ArticleBuild
    used_slugs,     \* the slug registry (dict base slug -> counter)
    gpc,            \* position of generate: "load", "loop", "built", "empty", "raised"
    gi,             \* index of the next group of ordered_groups
    out_files,      \* the output directory: dict file name -> document
    \* ---- pick_products as a pure function ----
    pp_products,    \* the candidate list handed to pick_products
    pp_top_n,       \* its top_n argument
    pp_out,         \* the returned list
    ppc,            \* "call" before the call, "returned" after it
    \* ---- submit_indexnow ----
    config,         \* the SiteConfig fields submit_indexnow reads
    urls,           \* its urls argument
    result,         \* its result dict
    batches,        \* its list of batches
    bi,             \* index of the next batch of the for loop
    posted,         \* the batches POSTed to the endpoint so far, in order
    responses,      \* what the endpoint answered to each POST, in order
    ipc,            \* position of submit_indexnow: "call", "batches", "returned"
    \* ---- chunked as a pure function ----
    ch_items,       \* its items argument
    ch_size,        \* its size argument
    ch_out,         \* the returned list of chunks
    chpc,           \* "call" before the call, "returned" after it
    \* ---- write_sitemap ----
    sm_pages,       \* its pages argument (page file names, repeats allowed)
    sm_chunk_size,  \* config.sitemap_chunk_size
    sm_files,       \* the files it wrote: dict file name -> document
    smpc,           \* "call" before the call, "returned" after it
    \* ---- write_static_pages ----
    ws_builds,      \* its builds argument
    ws_page_size,   \* config.guides_page_size
    ws_pages,       \* its list of (file name, document) pairs, in the order written
    wspc,           \* "call" before the call, "returned" after it
    \* ---- build_related_map ----
    rel_builds,     \* its builds argument
    rel_per_page,   \* its per_page argument (config.related_links_count)
    related,        \* the returned dict slug -> list of neighbour slugs
    relpc,          \* "call" before the call, "returned" after it
    \* ---- generate: the seeded random sources, two runs side by side ----
    sd_runs,        \* the two runs: arguments, clock, run_seed, builds, collages, random sources, position
    sd_draws,       \* what random.Random(material).choice has answered so far: dict seed material -> variant index
    \* ---- prepare_feature_collage ----
    fc_build,       \* the build it is handed (keyword, slug, selected products)
    fc_collage,     \* the feature fields it set on the build
    fcpc,           \* "call" before the call, "returned" after it
    \* ---- main: the effective settings ----
    ms_settings,    \* the merged settings (config file and command line), each value as a text
    ms_config,      \* the SiteConfig main builds from them
    ms_top_n,       \* the top_n main hands to generate
    mspc,           \* "call" before main builds the settings, "built" after
    \* ---- generate: what it returns ----
    article_pages,  \* the article files it wrote, in order
    static_pages,   \* the files write_static_pages wrote, in order
    indexnow_result \* its notification result dict

genVars == <<grouped, keywords, requested, top_n, ordered_groups, builds, used_slugs, gpc, gi,
             out_files>>
pickVars == <<pp_products, pp_top_n, pp_out, ppc>>
idxVars == <<config, urls, result, batches, bi, posted, responses, ipc>>
chunkVars == <<ch_items, ch_size, ch_out, chpc>>
sitemapVars == <<sm_pages, sm_chunk_size, sm_files, smpc>>
listVars == <<ws_builds, ws_page_size, ws_pages, wspc>>
relVars == <<rel_builds, rel_per_page, related, relpc>>
seedVars == <<sd_runs, sd_draws>>
collageVars == <<fc_build, fc_collage, fcpc>>
mainVars == <<ms_settings, ms_config, ms_top_n, mspc>>
runVars == <<article_pages, static_pages, indexnow_result>>
siteVars == <<chunkVars, sitemapVars, listVars, relVars, seedVars, collageVars, mainVars, runVars>>
vars == <<genVars, pickVars, idxVars, siteVars>>

-----------------------------------------------------------------------------
(* Text helpers *)

UpperChars ==
    <<"A", "B", "C", "D", "E", "F", "G", "H", "I", "J", "K", "L", "M", "N", "O", "P",
      "Q", "R", "S", "T", "U", "V", "W", "X", "Y", "Z">>
LowerChars ==
    <<"a", "b", "c", "d", "e", "f", "g", "h", "i", "j", "k", "l", "m", "n", "o", "p",
      "q", "r", "s", "t", "u", "v", "w", "x", "y", "z">>

\* Characters in code-point order (Python compares strings by code point).
CharOrder ==
    <<" ", "!", "-", ".", "/", "0", "1", "2", "3", "4", "5", "6", "7", "8", "9", ":",
      ";", "?", "A", "B", "C", "D", "E", "F", "G", "H", "I", "J", "K", "L", "M", "N",
      "O", "P", "Q", "R", "S", "T", "U", "V", "W", "X", "Y", "Z", "_", "a", "b", "c",
      "d", "e", "f", "g", "h", "i", "j", "k", "l", "m", "n", "o", "p", "q", "r", "s",
      "t", "u", "v", "w", "x", "y", "z", "|">>

Ord(c) == CHOOSE i \in 1..Len(CharOrder) : CharOrder[i] = c

IsSpace(c) == c = " "

DigitChars == <<"0", "1", "2", "3", "4", "5", "6", "7", "8", "9">>

LowerLetters == {LowerChars[i] : i \in 1..Len(LowerChars)}

\* the character class [a-z0-9]
IsAlnumLower(c) ==
    \/ \E i \in 1..Len(DigitChars) : DigitChars[i] = c
    \/ c \in LowerLetters

\* str.lower() on one character
LowerChar(c) ==
    IF \E i \in 1..Len(UpperChars) : UpperChars[i] = c
    THEN LowerChars[CHOOSE i \in 1..Len(UpperChars) : UpperChars[i] = c]
    ELSE c

LowerStr(s) == [i \in 1..Len(s) |-> LowerChar(s[i])]

RECURSIVE LStrip(_)
LStrip(s) == IF s # <<>> /\ IsSpace(Head(s)) THEN LStrip(Tail(s)) ELSE s

RECURSIVE RStrip(_)
RStrip(s) ==
    IF s # <<>> /\ IsSpace(s[Len(s)]) THEN RStrip(SubSeq(s, 1, Len(s) - 1)) ELSE s

\* str.strip()
Strip(s) == LStrip(RStrip(s))

\* re.sub(r"\s+", " ", s)
RECURSIVE CollapseWs(_)
CollapseWs(s) ==
    IF s = <<>> THEN <<>>
    ELSE IF IsSpace(Head(s))
         THEN <<" ">> \o CollapseWs(LStrip(s))
         ELSE <<Head(s)>> \o CollapseWs(Tail(s))

\* Python's < on strings
RECURSIVE StrLess(_, _)
StrLess(a, b) ==
    IF b = <<>> THEN FALSE
    ELSE IF a = <<>> THEN TRUE
    ELSE IF Head(a) = Head(b) THEN StrLess(Tail(a), Tail(b))
    ELSE Ord(Head(a)) < Ord(Head(b))

StrLeq(a, b) == a = b \/ StrLess(a, b)

\* str(n) for n >= 0
RECURSIVE IntToStr(_)
IntToStr(n) ==
    IF n < 10 THEN <<DigitChars[n + 1]>>
    ELSE IntToStr(n \div 10) \o <<DigitChars[(n % 10) + 1]>>

norm(text) == CollapseWs(LowerStr(Strip(text)))

\* re.sub(r"[^a-z0-9]+", "-", s)
RECURSIVE DashRuns(_)
DashRuns(s) ==
    IF s = <<>> THEN <<>>
    ELSE IF IsAlnumLower(Head(s))
         THEN <<Head(s)>> \o DashRuns(Tail(s))
         ELSE IF Len(s) > 1 /\ ~IsAlnumLower(s[2])
              THEN DashRuns(Tail(s))
              ELSE <<"-">> \o DashRuns(Tail(s))

RECURSIVE LStripDash(_)
LStripDash(s) == IF s # <<>> /\ Head(s) = "-" THEN LStripDash(Tail(s)) ELSE s

RECURSIVE RStripDash(_)
RStripDash(s) ==
    IF s # <<>> /\ s[Len(s)] = "-" THEN RStripDash(SubSeq(s, 1, Len(s) - 1)) ELSE s

PageSlug == <<"p", "a", "g", "e">>

slugify(text) ==
    LET stripped == LStripDash(RStripDash(DashRuns(norm(text))))
    IN  IF stripped = <<>> THEN PageSlug ELSE stripped

-----------------------------------------------------------------------------
(* Product records and pick_products *)

\* first index at which sub occurs in s, 0 if it does not (str.find, 1-based)
Find(sub, s) ==
    LET hits == {i \in 1..(Len(s) - Len(sub) + 1) : SubSeq(s, i, i + Len(sub) - 1) = sub}
    IN  IF hits = {} THEN 0 ELSE CHOOSE i \in hits : \A j \in hits : i <= j

\* number of words of a whitespace-collapsed, stripped string (len(s.split()))
WordCount(s) ==
    IF s = <<>> THEN 0 ELSE 1 + Cardinality({i \in 1..Len(s) : IsSpace(s[i])})

\* " ".join(s.split()[:k]) for a whitespace-collapsed, stripped string with more than k words
FirstWords(s, k) ==
    LET spaces == {i \in 1..Len(s) : IsSpace(s[i])}
        kth == CHOOSE i \in spaces : Cardinality({j \in spaces : j <= i}) = k
    IN  SubSeq(s, 1, kth - 1)

Separators == << <<"|">>, <<" ", "-", " ">>, <<":">>, <<";">> >>

MinLeftLen == 3
MaxTitleWords == 14

RECURSIVE ShortTitleFrom(_, _)
ShortTitleFrom(title, k) ==
    IF k > Len(Separators)
    THEN IF WordCount(title) > MaxTitleWords THEN FirstWords(title, MaxTitleWords) ELSE title
    ELSE LET at == Find(Separators[k], title)
             left == Strip(SubSeq(title, 1, at - 1))
         IN  IF at > 0 /\ Len(left) >= MinLeftLen
             THEN left
             ELSE ShortTitleFrom(title, k + 1)

short_title(title) == ShortTitleFrom(CollapseWs(Strip(title)), 1)

\* the key pick_products deduplicates on
DedupKey(p) == norm(short_title(p.product_name))

InvalidRankKey == 9999

\* the lambda of pick_products' sorted()
SortKey(p) ==
    <<IF p.rank_for_keyword > 0 THEN p.rank_for_keyword ELSE InvalidRankKey,
      0 - p.final_score, 0 - p.rating, 0 - p.review_count>>

\* Python's < on tuples of numbers of equal length
RECURSIVE TupleLess(_, _)
TupleLess(a, b) ==
    IF a = <<>> THEN FALSE
    ELSE IF Head(a) = Head(b) THEN TupleLess(Tail(a), Tail(b))
    ELSE Head(a) < Head(b)

\* x inserted after every element whose key is not greater: sorted() is stable
RECURSIVE InsertProduct(_, _)
InsertProduct(x, s) ==
    IF s = <<>> THEN <<x>>
    ELSE IF TupleLess(SortKey(x), SortKey(Head(s)))
         THEN <<x>> \o s
         ELSE <<Head(s)>> \o InsertProduct(x, Tail(s))

RECURSIVE SortProducts(_)
SortProducts(s) ==
    IF s = <<>> THEN <<>>
    ELSE InsertProduct(s[Len(s)], SortProducts(SubSeq(s, 1, Len(s) - 1)))

\* a variant of the loop that never skips a seen key
RECURSIVE PickLoopNoDedup(_, _, _, _, _)
PickLoopNoDedup(ordered, i, out, seen, n) ==
    IF i > Len(ordered) THEN out
    ELSE LET grown == Append(out, ordered[i])
         IN  IF Len(grown) >= n THEN grown
             ELSE PickLoopNoDedup(ordered, i + 1, grown, seen, n)

\* a variant of the loop that never stops at top_n
RECURSIVE PickLoopNoLimit(_, _, _, _, _)
PickLoopNoLimit(ordered, i, out, seen, n) ==
    IF i > Len(ordered) THEN out
    ELSE LET key == DedupKey(ordered[i])
         IN  IF key \in seen
             THEN PickLoopNoLimit(ordered, i + 1, out, seen, n)
             ELSE PickLoopNoLimit(ordered, i + 1, Append(out, ordered[i]), seen \cup {key}, n)

\* the for loop of pick_products over ordered[i..]
RECURSIVE PickLoopBody(_, _, _, _, _)
PickLoopBody(ordered, i, out, seen, n) ==
    IF i > Len(ordered) THEN out
    ELSE LET key == DedupKey(ordered[i])
             grown == Append(out, ordered[i])
         IN  IF key \in seen
             THEN PickLoopBody(ordered, i + 1, out, seen, n)
             ELSE IF Len(grown) >= n THEN grown
                  ELSE PickLoopBody(ordered, i + 1, grown, seen \cup {key}, n)

PickLoop(ordered, i, out, seen, n) == PickLoopBody(ordered, i, out, seen, n)

pick_products(products, n) == PickLoop(SortProducts(products), 1, <<>>, {}, n)

-----------------------------------------------------------------------------
(* Inputs: product names, products, keywords *)

Product(name, rank, score, rating, reviews) ==
    [product_name |-> name, rank_for_keyword |-> rank, final_score |-> score,
     rating |-> rating, review_count |-> reviews]

NameA == <<"S", "o", "x", " ", "A">>
NameADash == <<" ", "s", "o", "x", " ", " ", "a", " ", "-", " ", "x">>
NameAPipe == <<"S", "o", "x", " ", "A", "|", "x">>
NameB == <<"S", "o", "x", " ", "B">>
NameC == <<"S", "o", "x", " ", "C">>
\* fifteen words; the text left of the ":" is too short to be the title
Words14 ==
    <<"a", "b", ":", "w", " ", "w", " ", "w", " ", "w", " ", "w", " ", "w", " ", "w", " ",
      "w", " ", "w", " ", "w", " ", "w", " ", "w", " ", "w", " ", "w">>
NameLongX == Words14 \o <<" ", "x">>
NameLongY == Words14 \o <<" ", "y">>

\* The candidate products pick_products is exercised on.
ProductUniverse ==
    { Product(NameA, 1, 5, 4, 10),
      Product(NameAPipe, 1, 7, 4, 10),
      Product(NameADash, 2, 5, 4, 10),
      Product(NameB, 0, 9, 5, 99),
      Product(NameC, 10000, 5, 4, 10),
      Product(NameLongX, 2, 5, 3, 1),
      Product(NameLongY, 2, 5, 4, 9) }

MaxProducts == 5

\* sequences without repetition of at most n elements of S
RECURSIVE SeqsNoRep(_, _)
SeqsNoRep(S, n) ==
    IF n = 0 THEN {<<>>}
    ELSE LET shorter == SeqsNoRep(S, n - 1)
             grow == {pair \in shorter \X S :
                        /\ Len(pair[1]) = n - 1
                        /\ \A i \in 1..Len(pair[1]) : pair[1][i] # pair[2]}
         IN  shorter \cup {Append(pair[1], pair[2]) : pair \in grow}

-----------------------------------------------------------------------------
(* main: the settings that reach generate *)

IsDigit(c) == \E i \in 1..Len(DigitChars) : DigitChars[i] = c

DigitValue(c) == (CHOOSE i \in 1..Len(DigitChars) : DigitChars[i] = c) - 1

\* the value of a string of digits ("" counts 0)
RECURSIVE DigitsValue(_)
DigitsValue(s) ==
    IF s = <<>> THEN 0
    ELSE 10 * DigitsValue(SubSeq(s, 1, Len(s) - 1)) + DigitValue(s[Len(s)])

\* float(text) succeeds: an optional sign, digits with at most one "." and at least one digit
IsFloatText(text) ==
    LET t == Strip(text)
        body == IF t # <<>> /\ Head(t) \in {"-", "+"} THEN Tail(t) ELSE t
        dots == {i \in 1..Len(body) : body[i] = "."}
    IN  /\ Cardinality(dots) <= 1
        /\ \A i \in 1..Len(body) : IsDigit(body[i]) \/ body[i] = "."
        /\ \E i \in 1..Len(body) : IsDigit(body[i])

\* int(float(text)) for a text float() accepts: the integer part, truncated towards zero
IntOfFloatText(text) ==
    LET t == Strip(text)
        neg == t # <<>> /\ Head(t) = "-"
        body == IF t # <<>> /\ Head(t) \in {"-", "+"} THEN Tail(t) ELSE t
        dot == Find(<<".">>, body)
        whole == IF dot = 0 THEN body ELSE SubSeq(body, 1, dot - 1)
    IN  IF neg THEN 0 - DigitsValue(whole) ELSE DigitsValue(whole)

\* a variant that yields 0 for a malformed value
parse_int_like_nodefault(value, default) ==
    IF IsFloatText(value) THEN IntOfFloatText(value) ELSE 0

\* int(float(str(value).strip())), the default when that raises
parse_int_like(value, default) ==
    IF IsFloatText(value) THEN IntOfFloatText(value) ELSE default

Max(a, b) == IF a >= b THEN a ELSE b

Min(a, b) == IF a <= b THEN a ELSE b

MinTopN == 3
DefaultTopN == 10

\* the top_n main hands to generate
main_top_n(setting) == Max(MinTopN, parse_int_like(setting, DefaultTopN))

\* str(None): the setting is absent
NoneText == <<"N", "o", "n", "e">>

TopNSettings == { <<"4">>, <<" ", "3", ".", "9">>, <<"-", "1">>, NoneText }

TopNValues == {main_top_n(v) : v \in TopNSettings}

-----------------------------------------------------------------------------
(* pick_products, called on its own *)

IdlePick ==
    /\ pp_products = <<>>
    /\ pp_top_n = 0
    /\ pp_out = <<>>
    /\ ppc = "idle"

IdleGen ==
    /\ grouped = <<>>
    /\ keywords = <<>>
    /\ requested = {}
    /\ top_n = 0
    /\ ordered_groups = <<>>
    /\ builds = <<>>
    /\ used_slugs = <<>>
    /\ gpc = "idle"
    /\ gi = 0
    /\ out_files = <<>>

IdleIdx ==
    /\ config = <<>>
    /\ urls = <<>>
    /\ result = <<>>
    /\ batches = <<>>
    /\ bi = 0
    /\ posted = <<>>
    /\ responses = <<>>
    /\ ipc = "idle"

IdleChunk ==
    /\ ch_items = <<>>
    /\ ch_size = 0
    /\ ch_out = <<>>
    /\ chpc = "idle"

IdleSitemap ==
    /\ sm_pages = <<>>
    /\ sm_chunk_size = 0
    /\ sm_files = <<>>
    /\ smpc = "idle"

IdleList ==
    /\ ws_builds = <<>>
    /\ ws_page_size = 0
    /\ ws_pages = <<>>
    /\ wspc = "idle"

IdleRel ==
    /\ rel_builds = <<>>
    /\ rel_per_page = 0
    /\ related = <<>>
    /\ relpc = "idle"

IdleSeed ==
    /\ sd_runs = <<>>
    /\ sd_draws = <<>>

IdleCollage ==
    /\ fc_build = <<>>
    /\ fc_collage = <<>>
    /\ fcpc = "idle"

IdleMain ==
    /\ ms_settings = <<>>
    /\ ms_config = <<>>
    /\ ms_top_n = 0
    /\ mspc = "idle"

IdleRun ==
    /\ article_pages = <<>>
    /\ static_pages = <<>>
    /\ indexnow_result = <<>>

IdleSite ==
    /\ IdleChunk
    /\ IdleSitemap
    /\ IdleList
    /\ IdleRel
    /\ IdleSeed
    /\ IdleCollage
    /\ IdleMain
    /\ IdleRun

InitPick ==
    /\ pp_products \in SeqsNoRep(ProductUniverse, MaxProducts)
    /\ pp_top_n \in TopNValues
    /\ pp_out = <<>>
    /\ ppc = "call"
    /\ IdleGen
    /\ IdleIdx
    /\ IdleSite

PickProducts ==
    /\ ppc = "call"
    /\ pp_out' = pick_products(pp_products, pp_top_n)
    /\ ppc' = "returned"
    /\ UNCHANGED <<pp_products, pp_top_n, genVars, idxVars, siteVars>>

NextPick == PickProducts

SpecPick == InitPick /\ [][NextPick]_vars

-----------------------------------------------------------------------------
(* generate: grouping, the keyword loop, the slug registry *)

DictGet(d, k, default) == IF k \in DOMAIN d THEN d[k] ELSE default

DictPut(d, k, v) == [x \in (DOMAIN d) \cup {k} |-> IF x = k THEN v ELSE d[x]]

EmptyDict == [x \in {} |-> 0]

\* a variant that does not advance the counter
unique_slug_no_count(keyword, used) ==
    LET base == slugify(keyword)
        n == DictGet(used, base, 0) + 1
    IN  [slug |-> IF n = 1 THEN base ELSE base \o <<"-">> \o IntToStr(n),
         used |-> DictPut(used, base, 1)]

\* unique_slug: the slug it returns and the registry it leaves
unique_slug(keyword, used) ==
    LET base == slugify(keyword)
        n == DictGet(used, base, 0) + 1
    IN  [slug |-> IF n = 1 THEN base ELSE base \o <<"-">> \o IntToStr(n),
         used |-> DictPut(used, base, n)]

\* sorted(grouped.items(), key=lambda kv: norm(kv[0])): stable
RECURSIVE InsertGroup(_, _)
InsertGroup(g, s) ==
    IF s = <<>> THEN <<g>>
    ELSE IF StrLess(norm(g.keyword), norm(Head(s).keyword))
         THEN <<g>> \o s
         ELSE <<Head(s)>> \o InsertGroup(g, Tail(s))

RECURSIVE SortGroups(_)
SortGroups(s) ==
    IF s = <<>> THEN <<>>
    ELSE InsertGroup(s[Len(s)], SortGroups(SubSeq(s, 1, Len(s) - 1)))

\* {norm(k) for k in keywords if k.strip()}
RequestedOf(ks) == {norm(ks[i]) : i \in {j \in 1..Len(ks) : Strip(ks[j]) # <<>>}}

MinPicks == 3

ArticleBuild(keyword, slug, products) ==
    [keyword |-> keyword, slug |-> slug, products |-> products]

KwSox == <<"s", "o", "x">>
KwSoxUpper == <<"S", "o", "x">>
KwSoxBang == <<"s", "o", "x", "!">>
KwSox2 == <<"s", "o", "x", " ", "2">>
KwCap == <<"c", "a", "p">>

Keywords == {KwSox, KwSoxUpper, KwSoxBang, KwSox2, KwCap}

\* a group with two distinct candidates after dedup, and one with four
ItemsTwoDistinct ==
    <<Product(NameA, 1, 5, 4, 10), Product(NameADash, 2, 5, 4, 10), Product(NameB, 0, 9, 5, 99)>>
ItemsFourDistinct ==
    <<Product(NameC, 10000, 5, 4, 10), Product(NameA, 1, 5, 4, 10),
      Product(NameAPipe, 1, 7, 4, 10), Product(NameB, 0, 9, 5, 99),
      Product(NameLongY, 2, 5, 4, 9), Product(NameLongX, 2, 5, 3, 1)>>

ItemLists == {ItemsTwoDistinct, ItemsFourDistinct}

MaxGroups == 3

\* load_products' result: distinct keywords in first-row order, each with its rows
GroupedInputs ==
    UNION { { [i \in 1..Len(ks) |-> [keyword |-> ks[i], items |-> f[i]]] :
                f \in [1..Len(ks) -> ItemLists] } :
            ks \in SeqsNoRep(Keywords, MaxGroups) }

\* the keyword filters main hands over: none, one keyword, two keywords
KeywordArgs == { <<>>, <<KwSoxUpper>>, <<KwCap, KwSox2>> }

GenTopNSettings == { <<"-", "1">>, NoneText }

InitGen ==
    /\ grouped \in GroupedInputs
    /\ keywords \in KeywordArgs
    /\ top_n \in {main_top_n(v) : v \in GenTopNSettings}
    /\ requested = {}
    /\ ordered_groups = <<>>
    /\ builds = <<>>
    /\ used_slugs = EmptyDict
    /\ gpc = "load"
    /\ gi = 0
    /\ out_files = EmptyDict
    /\ IdlePick
    /\ IdleIdx
    /\ IdleSite

\* write_site_assets(output_dir): the style sheet and the logo
write_site_assets(files) ==
    (<<"a", "s", "s", "e", "t", "s", "/", "s", "i", "t", "e", ".", "c", "s", "s">> :> [kind |-> "asset"])
    @@ (<<"a", "s", "s", "e", "t", "s", "/", "s", "i", "t", "e", "-", "l", "o", "g", "o", ".", "s", "v", "g">> :> [kind |-> "asset"])
    @@ files

\* generate up to the for loop: no valid rows raises ValueError
GenRaiseNoRows ==
    /\ gpc = "load"
    /\ grouped = <<>>
    /\ gpc' = "raised"
    /\ UNCHANGED <<out_files, grouped, keywords, requested, top_n, ordered_groups, builds,
                   used_slugs, gi, pickVars, idxVars, siteVars>>

\* the requested set, the output directory with the site assets, the sorted groups
GenStart ==
    /\ gpc = "load"
    /\ grouped # <<>>
    /\ requested' = RequestedOf(keywords)
    /\ out_files' = write_site_assets(out_files)
    /\ ordered_groups' = SortGroups(grouped)
    /\ gi' = 1
    /\ gpc' = "loop"
    /\ UNCHANGED <<grouped, keywords, top_n, builds, used_slugs, pickVars, idxVars, siteVars>>

\* one iteration of the for loop: the keyword is filtered out
GenSkipUnrequested ==
    /\ gpc = "loop"
    /\ gi <= Len(ordered_groups)
    /\ requested # {}
    /\ norm(ordered_groups[gi].keyword) \notin requested
    /\ gi' = gi + 1
    /\ UNCHANGED <<out_files, grouped, keywords, requested, top_n, ordered_groups, builds,
                   used_slugs, gpc, pickVars, idxVars, siteVars>>

Requested(g) == requested = {} \/ norm(g.keyword) \in requested

\* one iteration: fewer than 3 picks, the keyword is skipped
GenSkipTooFew ==
    /\ gpc = "loop"
    /\ gi <= Len(ordered_groups)
    /\ Requested(ordered_groups[gi])
    /\ Len(pick_products(ordered_groups[gi].items, top_n)) < MinPicks
    /\ gi' = gi + 1
    /\ UNCHANGED <<out_files, grouped, keywords, requested, top_n, ordered_groups, builds,
                   used_slugs, gpc, pickVars, idxVars, siteVars>>

\* one iteration: a build is appended under a slug of the registry
GenAppendBuild ==
    /\ gpc = "loop"
    /\ gi <= Len(ordered_groups)
    /\ Requested(ordered_groups[gi])
    /\ LET g == ordered_groups[gi]
           picks == pick_products(g.items, top_n)
           us == unique_slug(g.keyword, used_slugs)
       IN  /\ Len(picks) >= MinPicks
           /\ builds' = Append(builds, ArticleBuild(g.keyword, us.slug, picks))
           /\ used_slugs' = us.used
    /\ gi' = gi + 1
    /\ UNCHANGED <<out_files, grouped, keywords, requested, top_n, ordered_groups, gpc,
                   pickVars, idxVars, siteVars>>

\* GenLoopDone without the early return of an empty build list
GenLoopDoneNoEarlyReturn ==
    /\ gpc = "loop"
    /\ gi > Len(ordered_groups)
    /\ gpc' = "built"
    /\ UNCHANGED <<out_files, grouped, keywords, requested, top_n, ordered_groups, builds,
                   used_slugs, gi, pickVars, idxVars, siteVars>>

\* the loop is over: generate returns early when nothing was built
GenLoopDone ==
    /\ gpc = "loop"
    /\ gi > Len(ordered_groups)
    /\ gpc' = IF builds = <<>> THEN "empty" ELSE "built"
    /\ UNCHANGED <<out_files, grouped, keywords, requested, top_n, ordered_groups, builds,
                   used_slugs, gi, pickVars, idxVars, siteVars>>

NextGen ==
    \/ GenRaiseNoRows
    \/ GenStart
    \/ GenSkipUnrequested
    \/ GenSkipTooFew
    \/ GenAppendBuild
    \/ GenLoopDone

SpecGen == InitGen /\ [][NextGen]_vars

-----------------------------------------------------------------------------
(* Claims about the slug registry and the keyword loop *)

GenReturned == gpc \in {"built", "empty"}

\* number of builds among the first k whose keyword has base slug b
BaseCount(b, k) == Cardinality({j \in 1..k : slugify(builds[j].keyword) = b})

\* s is the decimal numeral of n, n >= 1
IsNumeralOf(s, n) ==
    /\ s # <<>>
    /\ \A i \in 1..Len(s) : IsDigit(s[i])
    /\ s[1] # "0"
    /\ DigitsValue(s) = n

\* C1: no two PageBuilds created in one run of generate have the same slug.
C1_NoSharedSlug ==
    \A i, j \in 1..Len(builds) : i # j => builds[i].slug # builds[j].slug

\* C2: the i-th unique_slug call for a base slug b returns b for i = 1 and b-i for
\* i >= 2, and the registry counter of b is the number of calls made for b so far.
C2_SuffixSequence ==
    /\ \A j \in 1..Len(builds) :
          LET b == slugify(builds[j].keyword)
              i == BaseCount(b, j)
              slug == builds[j].slug
          IN  IF i = 1
              THEN slug = b
              ELSE /\ Len(slug) > Len(b) + 1
                   /\ SubSeq(slug, 1, Len(b)) = b
                   /\ slug[Len(b) + 1] = "-"
                   /\ IsNumeralOf(SubSeq(slug, Len(b) + 2, Len(slug)), i)
    /\ DOMAIN used_slugs = {slugify(builds[j].keyword) : j \in 1..Len(builds)}
    /\ \A b \in DOMAIN used_slugs : used_slugs[b] = BaseCount(b, Len(builds))

\* three keywords of one base slug were registered: sox, sox-2, sox-3
C2_Witness ==
    /\ Len(builds) = 3
    /\ builds[1].slug = <<"s", "o", "x">>
    /\ builds[2].slug = <<"s", "o", "x", "-", "2">>
    /\ builds[3].slug = <<"s", "o", "x", "-", "3">>
    /\ \A j \in 1..3 : slugify(builds[j].keyword) = <<"s", "o", "x">>

\* the distinct candidates of a group after deduplication on the display name
DistinctCandidates(g) == Cardinality({DedupKey(g.items[i]) : i \in 1..Len(g.items)})

BuildsOf(keyword) == Cardinality({j \in 1..Len(builds) : builds[j].keyword = keyword})

\* the keyword filter lets the group through
PassesFilter(g) ==
    \/ \A i \in 1..Len(keywords) : Strip(keywords[i]) = <<>>
    \/ \E i \in 1..Len(keywords) : Strip(keywords[i]) # <<>> /\ norm(keywords[i]) = norm(g.keyword)

\* C3 as stated: every group of the input with at least 3 distinct candidates gets
\* exactly one PageBuild, every other group none, and every PageBuild holds at
\* least 3 products.
C3_EveryGroup ==
    GenReturned =>
        /\ \A i \in 1..Len(grouped) :
              BuildsOf(grouped[i].keyword) =
                  IF DistinctCandidates(grouped[i]) >= 3 THEN 1 ELSE 0
        /\ \A j \in 1..Len(builds) : Len(builds[j].products) >= 3

\* C3 amended: the same, for the groups the keyword filter lets through; a group
\* it filters out gets no PageBuild.
C3_EveryRequestedGroup ==
    GenReturned =>
        /\ \A i \in 1..Len(grouped) :
              BuildsOf(grouped[i].keyword) =
                  IF PassesFilter(grouped[i]) /\ DistinctCandidates(grouped[i]) >= 3
                  THEN 1 ELSE 0
        /\ \A j \in 1..Len(builds) : Len(builds[j].products) >= 3

\* a run with a filter: a requested group of four distinct candidates is built, a
\* requested group of two is not, and a group of four is filtered out
C3_Witness ==
    /\ gpc = "built"
    /\ \E i, j, k \in 1..Len(grouped) :
          /\ PassesFilter(grouped[i]) /\ DistinctCandidates(grouped[i]) >= 3
          /\ BuildsOf(grouped[i].keyword) = 1
          /\ PassesFilter(grouped[j]) /\ DistinctCandidates(grouped[j]) < 3
          /\ BuildsOf(grouped[j].keyword) = 0
          /\ ~PassesFilter(grouped[k]) /\ DistinctCandidates(grouped[k]) >= 3
          /\ BuildsOf(grouped[k].keyword) = 0

-----------------------------------------------------------------------------
(* Claims about pick_products *)

ValidRank(p) == p.rank_for_keyword > 0

\* the order the ranking policy states: valid ranks first and ascending, then
\* composite score, rating and review count descending
PolicyKey(p) ==
    <<IF ValidRank(p) THEN 0 ELSE 1,
      IF ValidRank(p) THEN p.rank_for_keyword ELSE 0,
      0 - p.final_score, 0 - p.rating, 0 - p.review_count>>

\* C4: pick_products returns its picks in the policy's order: every record with a
\* non-positive rank after every record with a positive rank, whatever that rank
\* is, ties broken by score, rating and review count descending.
C4_InvalidRanksLast ==
    ppc = "returned" =>
        \A i, j \in 1..Len(pp_out) :
            i < j => ~TupleLess(PolicyKey(pp_out[j]), PolicyKey(pp_out[i]))

\* the positions of the sorted candidates that are the first of their key
FirstOfKey(ordered) ==
    {i \in 1..Len(ordered) :
        \A j \in 1..(i - 1) : DedupKey(ordered[j]) # DedupKey(ordered[i])}

\* the k-th smallest element of a set of numbers
KthOf(S, k) == CHOOSE x \in S : Cardinality({y \in S : y <= x}) = k

\* C5: pick_products returns at most top_n items, in sort order, with pairwise
\* distinct normalized keys: the first candidate of every key, until top_n are
\* selected, and nothing else is left out.
C5_FirstOfEachKey ==
    ppc = "returned" =>
        LET ordered == SortProducts(pp_products)
            firsts == FirstOfKey(ordered)
        IN  /\ Len(pp_out) <= pp_top_n
            /\ Len(pp_out) = Min(pp_top_n, Cardinality(firsts))
            /\ \A k \in 1..Len(pp_out) : pp_out[k] = ordered[KthOf(firsts, k)]
            /\ \A i, j \in 1..Len(pp_out) :
                  i # j => DedupKey(pp_out[i]) # DedupKey(pp_out[j])

\* a call where a later candidate of a seen key was dropped and a candidate of a
\* new key was left out because top_n were selected
C5_Witness ==
    /\ ppc = "returned"
    /\ Len(pp_out) = pp_top_n
    /\ LET ordered == SortProducts(pp_products)
       IN  /\ Cardinality(FirstOfKey(ordered)) > pp_top_n
           /\ \E i \in 1..Len(ordered) :
                 /\ i \notin FirstOfKey(ordered)
                 /\ i < KthOf(FirstOfKey(ordered), pp_top_n)

-----------------------------------------------------------------------------
(* submit_indexnow *)

\* the smallest string of a non-empty set
MinStr(S) == CHOOSE x \in S : \A y \in S : StrLeq(x, y)

\* sorted(S) for a set of strings: each string inserted at its place
RECURSIVE SortedStrings(_)
SortedStrings(S) ==
    LET RECURSIVE Insert(_, _)
        Insert(x, sorted) ==
            IF sorted = <<>> THEN <<x>>
            ELSE IF StrLess(x, Head(sorted)) THEN <<x>> \o sorted
                 ELSE <<Head(sorted)>> \o Insert(x, Tail(sorted))
    IN  IF S = {} THEN <<>>
        ELSE LET x == CHOOSE y \in S : TRUE
             IN  Insert(x, SortedStrings(S \ {x}))

\* sorted(set(u.strip() for u in urls if u.strip()))
url_list_of(us) == SortedStrings({Strip(us[i]) : i \in {j \in 1..Len(us) : Strip(us[j]) # <<>>}})

DefaultBatchSize == 10000

\* a variant without the clamp to 1
batch_size_unclamped(cfg) ==
    IF cfg.indexnow_batch_size = 0 THEN DefaultBatchSize ELSE cfg.indexnow_batch_size

\* max(1, int(config.indexnow_batch_size or 10000))
batch_size_of(cfg) ==
    Max(1, IF cfg.indexnow_batch_size = 0 THEN DefaultBatchSize ELSE cfg.indexnow_batch_size)

\* [url_list[i : i + size] for i in range(start, len(url_list), size)], start 0-based
RECURSIVE SlicesFrom(_, _, _)
SlicesFrom(list, start, size) ==
    \* range() with a negative step yields nothing
    IF start >= Len(list) \/ size <= 0 THEN <<>>
    ELSE <<SubSeq(list, start + 1, Min(start + size, Len(list)))>>
         \o SlicesFrom(list, start + size, size)

\* a variant that keeps the blanks of the key
key_unstripped(cfg) == cfg.indexnow_key

\* (config.indexnow_key or "").strip()
key_of(cfg) == Strip(cfg.indexnow_key)

NoError == <<>>
KeyMissing == <<"indexnow_key_missing">>
UrlListEmpty == <<"url_list_empty">>
HttpTag(code) == <<"http_", code>>
UrlErrorTag(reason) == <<"url_error:", reason>>
ExceptionTag(type) == <<"exception:", type>>

\* the result dict submit_indexnow starts from
ResultInit(cfg) ==
    [enabled |-> cfg.indexnow_key # <<>>,
     submitted |-> FALSE,
     batch_count |-> 0,
     submitted_url_count |-> 0,
     failed_batches |-> 0,
     last_status_code |-> 0,
     error |-> NoError]

\* a variant that sets the error of a failed batch without counting it
RecordFailureNoCount(res, tag) ==
    [res EXCEPT !.error = IF @ = NoError THEN tag ELSE @]

\* a variant in which every failure overwrites the error
RecordFailureOverwrite(res, tag) ==
    [res EXCEPT !.failed_batches = @ + 1, !.error = tag]

\* a failed batch: failed_batches += 1, and the error is set unless one is set already
RecordFailure(res, tag) ==
    [res EXCEPT !.failed_batches = @ + 1,
                !.error = IF @ = NoError THEN tag ELSE @]

\* a variant that counts an accepted batch as one URL
RecordAcceptedOne(res, batch) ==
    [res EXCEPT !.submitted_url_count = @ + 1]

\* an accepted batch: submitted_url_count += len(batch)
RecordAccepted(res, batch) ==
    [res EXCEPT !.submitted_url_count = @ + Len(batch)]

\* a variant that ignores the failed batches
SubmittedFlagAnyAccepted(res) == res.submitted_url_count > 0

\* result["submitted"] at the end of the run
SubmittedFlag(res) == res.submitted_url_count > 0 /\ res.failed_batches = 0

AcceptedCodes == {200, 202}
OtherCodes == {204}
HttpErrorCodes == {403, 500}
UrlErrorReasons == {"timed out"}
ExceptionTypes == {"TimeoutError"}

UrlA == <<"a">>
UrlB == <<"b">>
UrlC == <<"c">>
RawUrls == { <<>>, <<" ">>, UrlA, <<" ", "a", " ">>, UrlB, UrlC }

MaxUrls == 3

\* all sequences of at most n elements of S
RECURSIVE SeqsUpTo(_, _)
SeqsUpTo(S, n) ==
    IF n = 0 THEN {<<>>} ELSE SeqsUpTo(S, n - 1) \cup [1..n -> S]

IndexNowKeys == { <<>>, <<" ">>, <<"k">>, <<" ", "k">> }
BatchSizes == {-1, 0, 1, 2}

InitIdx ==
    /\ config \in [indexnow_key : IndexNowKeys, indexnow_batch_size : BatchSizes]
    /\ urls \in SeqsUpTo(RawUrls, MaxUrls)
    /\ result = ResultInit(config)
    /\ batches = <<>>
    /\ bi = 0
    /\ posted = <<>>
    /\ responses = <<>>
    /\ ipc = "call"
    /\ IdleGen
    /\ IdlePick
    /\ IdleSite

\* no key: return before any request
IdxKeyMissing ==
    /\ ipc = "call"
    /\ key_of(config) = <<>>
    /\ result' = [result EXCEPT !.error = KeyMissing]
    /\ ipc' = "returned"
    /\ UNCHANGED <<config, urls, batches, bi, posted, responses, genVars, pickVars, siteVars>>

\* no URL left after trimming and deduplication: return before any request
IdxUrlListEmpty ==
    /\ ipc = "call"
    /\ key_of(config) # <<>>
    /\ url_list_of(urls) = <<>>
    /\ result' = [result EXCEPT !.error = UrlListEmpty]
    /\ ipc' = "returned"
    /\ UNCHANGED <<config, urls, batches, bi, posted, responses, genVars, pickVars, siteVars>>

\* the batches are cut and the for loop is entered
IdxCutBatches ==
    /\ ipc = "call"
    /\ key_of(config) # <<>>
    /\ url_list_of(urls) # <<>>
    /\ batches' = SlicesFrom(url_list_of(urls), 0, batch_size_of(config))
    /\ result' = [result EXCEPT !.batch_count = Len(batches')]
    /\ bi' = 1
    /\ ipc' = "batches"
    /\ UNCHANGED <<config, urls, posted, responses, genVars, pickVars, siteVars>>

InLoop == ipc = "batches" /\ bi <= Len(batches)

\* what every iteration does whatever the answer: one POST of the batch, then the next batch
Posted(resp) ==
    /\ posted' = Append(posted, batches[bi])
    /\ responses' = Append(responses, resp)
    /\ bi' = bi + 1
    /\ UNCHANGED <<config, urls, batches, ipc, genVars, pickVars, siteVars>>

\* a variant that leaves the loop instead of continuing with the next batch
PostedThenAbort(resp) ==
    /\ posted' = Append(posted, batches[bi])
    /\ responses' = Append(responses, resp)
    /\ bi' = Len(batches) + 1
    /\ UNCHANGED <<config, urls, batches, ipc, genVars, pickVars, siteVars>>

\* urlopen returns 200 or 202
BatchAccepted ==
    /\ InLoop
    /\ \E code \in AcceptedCodes :
          /\ result' = [RecordAccepted(result, batches[bi]) EXCEPT !.last_status_code = code]
          /\ Posted([kind |-> "status", code |-> code])

\* urlopen returns another status
BatchOtherStatus ==
    /\ InLoop
    /\ \E code \in OtherCodes :
          /\ result' = [RecordFailure(result, HttpTag(code)) EXCEPT !.last_status_code = code]
          /\ Posted([kind |-> "status", code |-> code])

\* a variant in which the status of an HTTPError is not kept
BatchHTTPErrorNoStatus ==
    /\ InLoop
    /\ \E code \in HttpErrorCodes :
          /\ result' = RecordFailure(result, HttpTag(code))
          /\ Posted([kind |-> "HTTPError", code |-> code])

\* urlopen raises HTTPError
BatchHTTPError ==
    /\ InLoop
    /\ \E code \in HttpErrorCodes :
          /\ result' = [RecordFailure(result, HttpTag(code)) EXCEPT !.last_status_code = code]
          /\ Posted([kind |-> "HTTPError", code |-> code])

\* a variant in which a URLError ends the loop
BatchURLErrorAborts ==
    /\ InLoop
    /\ \E reason \in UrlErrorReasons :
          /\ result' = RecordFailure(result, UrlErrorTag(reason))
          /\ PostedThenAbort([kind |-> "URLError", reason |-> reason])

\* urlopen raises URLError (a timeout, a refused connection)
BatchURLError ==
    /\ InLoop
    /\ \E reason \in UrlErrorReasons :
          /\ result' = RecordFailure(result, UrlErrorTag(reason))
          /\ Posted([kind |-> "URLError", reason |-> reason])

\* urlopen raises any other Exception
BatchException ==
    /\ InLoop
    /\ \E type \in ExceptionTypes :
          /\ result' = RecordFailure(result, ExceptionTag(type))
          /\ Posted([kind |-> "Exception", type |-> type])

\* after the loop: the submitted flag, and the return
IdxReturn ==
    /\ ipc = "batches"
    /\ bi > Len(batches)
    /\ result' = [result EXCEPT !.submitted = SubmittedFlag(result)]
    /\ ipc' = "returned"
    /\ UNCHANGED <<config, urls, batches, bi, posted, responses, genVars, pickVars, siteVars>>

NextIdx ==
    \/ IdxKeyMissing
    \/ IdxUrlListEmpty
    \/ IdxCutBatches
    \/ BatchAccepted
    \/ BatchOtherStatus
    \/ BatchHTTPError
    \/ BatchURLError
    \/ BatchException
    \/ IdxReturn

SpecIdx == InitIdx /\ [][NextIdx]_vars

-----------------------------------------------------------------------------
(* Claims about submit_indexnow *)

\* the distinct non-empty URLs of the argument, trimmed
CleanUrls == {Strip(urls[i]) : i \in {j \in 1..Len(urls) : Strip(urls[j]) # <<>>}}

KeyGiven == Strip(config.indexnow_key) # <<>>

CeilDiv(n, d) == (n + d - 1) \div d

RECURSIVE Flatten(_)
Flatten(ss) == IF ss = <<>> THEN <<>> ELSE Head(ss) \o Flatten(Tail(ss))

Accepted(resp) == resp.kind = "status" /\ resp.code \in {200, 202}

FailedAt == {k \in 1..Len(responses) : ~Accepted(responses[k])}

\* the error a failed answer stands for
TagOf(resp) ==
    CASE resp.kind = "status" -> <<"http_", resp.code>>
      [] resp.kind = "HTTPError" -> <<"http_", resp.code>>
      [] resp.kind = "URLError" -> <<"url_error:", resp.reason>>
      [] resp.kind = "Exception" -> <<"exception:", resp.type>>

RECURSIVE SumLen(_, _)
SumLen(ss, K) ==
    IF K = {} THEN 0
    ELSE LET k == CHOOSE x \in K : TRUE IN Len(ss[k]) + SumLen(ss, K \ {k})

C7_FirstErrorKept ==
    (ipc \in {"batches", "returned"} /\ FailedAt # {}) =>
        LET first == CHOOSE k \in FailedAt : \A j \in FailedAt : k <= j
        IN  /\ result.error = TagOf(responses[first])
            /\ result.submitted = FALSE

\* three batches, only the second failed
C7_Witness ==
    /\ ipc = "returned"
    /\ Len(responses) = 3
    /\ FailedAt = {2}
    /\ result.submitted = FALSE
    /\ result.failed_batches = 1
    /\ result.error = TagOf(responses[2])

\* C8: after a run, submitted is true exactly when a URL was accepted and no
\* batch failed.
C8_SubmittedIff ==
    ipc = "returned" =>
        (result.submitted <=> (result.submitted_url_count > 0 /\ result.failed_batches = 0))

\* a run that had URLs accepted and a batch failed
C8_Witness ==
    /\ ipc = "returned"
    /\ result.submitted_url_count > 0
    /\ result.failed_batches > 0
    /\ ~result.submitted

\* C9: without a key (empty or blank), or without a URL left after trimming, no
\* request is made and the result is unsubmitted with zero counts and the error
\* indexnow_key_missing, respectively url_list_empty; the key is checked first.
C9_ShortCircuit ==
    (~KeyGiven \/ CleanUrls = {}) =>
        /\ posted = <<>>
        /\ ipc = "returned" =>
              /\ result.submitted = FALSE
              /\ result.batch_count = 0
              /\ result.submitted_url_count = 0
              /\ result.failed_batches = 0
              /\ result.error = IF ~KeyGiven THEN <<"indexnow_key_missing">>
                                ELSE <<"url_list_empty">>

\* a blank key and a list of blank URLs: the key error is the one reported
C9_Witness ==
    /\ ipc = "returned"
    /\ config.indexnow_key = <<" ">>
    /\ urls # <<>>
    /\ CleanUrls = {}
    /\ result.error = <<"indexnow_key_missing">>

\* C10: failed_batches counts the batches not answered with 200 or 202, and
\* submitted_url_count is the total size of the batches answered with 200 or 202.
C10_BatchAccounting ==
    ipc \in {"batches", "returned"} =>
        /\ result.failed_batches = Cardinality(FailedAt)
        /\ result.submitted_url_count = SumLen(posted, (1..Len(posted)) \ FailedAt)

\* a batch of two URLs accepted, then a batch that failed
C10_Witness ==
    /\ ipc = "returned"
    /\ Len(posted) = 2
    /\ Len(posted[1]) = 2
    /\ Accepted(responses[1])
    /\ responses[2].kind = "status" /\ responses[2].code = 204
    /\ result.failed_batches = 1
    /\ result.submitted_url_count = 2

-----------------------------------------------------------------------------
\* the answers that carried an HTTP status: a returned response or an HTTPError
StatusAt == {k \in 1..Len(responses) : responses[k].kind \in {"status", "HTTPError"}}

\* C25: last_status_code is the status of the last batch that was answered with
\* any status (a response or an HTTP error); a batch that fails with a URLError
\* or another exception leaves it as it was; it is 0 while no batch was
\* answered with a status.
C25_LastStatusCode ==
    /\ [](ipc \in {"batches", "returned"} =>
            result.last_status_code =
                IF StatusAt = {} THEN 0
                ELSE responses[CHOOSE k \in StatusAt : \A j \in StatusAt : j <= k].code)
    /\ [][(InLoop /\ Len(responses') > Len(responses)
              /\ responses'[Len(responses')].kind \in {"URLError", "Exception"})
          => result'.last_status_code = result.last_status_code]_vars

\* an HTTP 403, then a timeout, then an exception: the 403 is still the last status
C25_Witness ==
    /\ ipc = "returned"
    /\ Len(responses) = 3
    /\ responses[1].kind = "HTTPError" /\ responses[1].code = 403
    /\ responses[2].kind = "URLError"
    /\ responses[3].kind = "Exception"
    /\ result.last_status_code = 403

\* C29: in a run that reached the batches, after every batch the accepted URLs
\* plus the URLs of the failed batches are the URLs of the batches attempted
\* so far (at the end: every distinct URL), failed_batches never exceeds
\* batch_count, and the error is set exactly when a batch has failed.
C29_Accounting ==
    ipc \in {"batches", "returned"} /\ KeyGiven /\ CleanUrls # {} =>
        /\ result.submitted_url_count + SumLen(posted, FailedAt)
              = SumLen(batches, 1..(bi - 1))
        /\ ipc = "returned" =>
              result.submitted_url_count + SumLen(posted, FailedAt) = Cardinality(CleanUrls)
        /\ result.failed_batches <= result.batch_count
        /\ (result.error # NoError) <=> (result.failed_batches > 0)

\* three URLs in batches of two: the first batch failed, the second was accepted
C29_Witness ==
    /\ ipc = "returned"
    /\ Cardinality(CleanUrls) = 3
    /\ Len(posted) = 2
    /\ FailedAt = {1}
    /\ result.submitted_url_count = 1
    /\ result.failed_batches = 1
    /\ result.batch_count = 2
    /\ result.error # NoError

(* chunked, called on its own *)

\* a variant that drops a trailing partial chunk
chunked_no_tail(items, size) ==
    LET safe == Max(1, size)
    IN SlicesFrom(SubSeq(items, 1, (Len(items) \div safe) * safe), 0, safe)

\* safe = max(1, size); out = [items[i : i + safe] for i in range(0, len(items), safe)]
chunked(items, size) ==
    LET safe == Max(1, size)
    IN SlicesFrom(items, 0, safe)

MaxItems == 5

InitChunk ==
    /\ ch_items \in SeqsUpTo({"x", "y"}, MaxItems)
    /\ ch_size \in {-1, 0, 1, 2, 3, 7}
    /\ ch_out = <<>>
    /\ chpc = "call"
    /\ IdleGen
    /\ IdlePick
    /\ IdleIdx
    /\ IdleSitemap
    /\ IdleList
    /\ IdleRel
    /\ IdleSeed
    /\ IdleCollage
    /\ IdleMain
    /\ IdleRun

Chunked ==
    /\ chpc = "call"
    /\ ch_out' = chunked(ch_items, ch_size)
    /\ chpc' = "returned"
    /\ UNCHANGED <<ch_items, ch_size, genVars, pickVars, idxVars, sitemapVars, listVars,
                   relVars, seedVars, collageVars, mainVars, runVars>>

SpecChunk == InitChunk /\ [][Chunked]_vars

\* C11: for N items and a size S >= 1, chunked returns exactly ceil(N / S)
\* chunks, none of them empty, none longer than S, all but the last of
\* length exactly S, and the chunks joined in order are the original list.
C11_ChunkShape ==
    (chpc = "returned" /\ ch_size >= 1) =>
        /\ Len(ch_out) = CeilDiv(Len(ch_items), ch_size)
        /\ \A k \in 1..Len(ch_out) :
              /\ Len(ch_out[k]) >= 1
              /\ Len(ch_out[k]) <= ch_size
              /\ k < Len(ch_out) => Len(ch_out[k]) = ch_size
        /\ Flatten(ch_out) = ch_items

\* five items cut by two: two full chunks and a shorter last one
C11_Witness ==
    /\ chpc = "returned"
    /\ ch_size = 2
    /\ Len(ch_items) = 5
    /\ Len(ch_out) = 3
    /\ Len(ch_out[3]) = 1

-----------------------------------------------------------------------------
(* write_sitemap *)

\* html.escape(text, quote=True), one character at a time
RECURSIVE esc(_)
esc(text) ==
    LET EscChar(c) ==
            CASE c = "&" -> <<"&", "a", "m", "p", ";">>
              [] c = "<" -> <<"&", "l", "t", ";">>
              [] c = ">" -> <<"&", "g", "t", ";">>
              [] c = "\"" -> <<"&", "q", "u", "o", "t", ";">>
              [] c = "'" -> <<"&", "#", "x", "2", "7", ";">>
              [] OTHER -> <<c>>
    IN  IF text = <<>> THEN <<>> ELSE EscChar(Head(text)) \o esc(Tail(text))

\* the public path of a page file: "index.html" is the root, ".html" is dropped,
\* a "?query" or "#fragment" tail is kept as it is
normalize_public_path(path) ==
    LET RECURSIVE LStripSlash(_)
        LStripSlash(t) == IF t # <<>> /\ Head(t) = "/" THEN LStripSlash(Tail(t)) ELSE t
        HtmlSuffix == <<".", "h", "t", "m", "l">>
        IndexNames == {<<>>, <<"i", "n", "d", "e", "x">>, <<"i", "n", "d", "e", "x", ".", "h", "t", "m", "l">>}
        EndsWith(t, suffix) ==
            Len(t) >= Len(suffix) /\ SubSeq(t, Len(t) - Len(suffix) + 1, Len(t)) = suffix
        raw == LStripSlash(Strip(path))
        h == Find(<<"#">>, raw)
        before_hash == IF h = 0 THEN raw ELSE SubSeq(raw, 1, h - 1)
        hash_tail == IF h = 0 THEN <<>> ELSE SubSeq(raw, h, Len(raw))
        q == Find(<<"?">>, before_hash)
        path_part == IF q = 0 THEN before_hash ELSE SubSeq(before_hash, 1, q - 1)
        query_tail == IF q = 0 THEN <<>> ELSE SubSeq(before_hash, q, Len(before_hash))
        stripped == Strip(path_part)
        clean_part ==
            IF stripped \in IndexNames THEN <<>>
            ELSE IF EndsWith(LowerStr(stripped), HtmlSuffix)
                 THEN SubSeq(stripped, 1, Len(stripped) - Len(HtmlSuffix))
                 ELSE stripped
    IN  IF raw = <<>> THEN <<>> ELSE clean_part \o query_tail \o hash_tail

\* config.site_url after normalize_site_url: a scheme and a host, no trailing slash
SiteUrl == <<"h", "t", "t", "p", "s", ":", "/", "/", "x", ".", "d", "e", "v">>

\* f"{config.site_url}/{public_path}" (f"{config.site_url}/" for the root)
absolute_url(path) == SiteUrl \o <<"/">> \o normalize_public_path(path)

SitemapName == <<"s", "i", "t", "e", "m", "a", "p", ".", "x", "m", "l">>

\* f"sitemap-{chunk_index}.xml"
SitemapChunkName(chunk_index) ==
    <<"s", "i", "t", "e", "m", "a", "p", "-">> \o IntToStr(chunk_index) \o <<".", "x", "m", "l">>

\* a urlset document: one <url><loc> entry per page, in order
\* (the <lastmod> date of the run is the same in every entry and is left out)
UrlSet(pages) == [root |-> "urlset", locs |-> [i \in 1..Len(pages) |-> esc(absolute_url(pages[i]))]]

\* a sitemapindex document: one <sitemap><loc> entry per name, in order
SitemapIndex(names) ==
    [root |-> "sitemapindex", locs |-> [i \in 1..Len(names) |-> esc(absolute_url(names[i]))]]

\* sorted(set(pages))
unique_pages_of(pages) == SortedStrings({pages[i] : i \in 1..Len(pages)})

\* max(1, config.sitemap_chunk_size)
sitemap_chunk_size_of(size) == Max(1, size)

\* a variant whose slices start at the second page
sitemap_chunks_skip_first(unique_pages, chunk_size) == SlicesFrom(unique_pages, 1, chunk_size)

\* unique_pages[i : i + chunk_size] for i in range(0, len(unique_pages), chunk_size)
sitemap_chunks(unique_pages, chunk_size) == SlicesFrom(unique_pages, 0, chunk_size)

\* a variant that also cuts chunk files when the pages exactly fill one chunk
write_sitemap_strict(pages, size) ==
    LET unique_pages == unique_pages_of(pages)
        chunk_size == sitemap_chunk_size_of(size)
        chunks == sitemap_chunks(unique_pages, chunk_size)
        sitemap_files == [k \in 1..Len(chunks) |-> SitemapChunkName(k)]
    IN  IF Len(unique_pages) < chunk_size
        THEN SitemapName :> UrlSet(unique_pages)
        ELSE [name \in {sitemap_files[k] : k \in 1..Len(chunks)} |->
                 UrlSet(chunks[CHOOSE k \in 1..Len(chunks) : sitemap_files[k] = name])]
             @@ (SitemapName :> SitemapIndex(sitemap_files))

\* the files write_sitemap writes: sitemap.xml alone, or the chunk files and
\* then sitemap.xml as their index
write_sitemap(pages, size) ==
    LET unique_pages == unique_pages_of(pages)
        chunk_size == sitemap_chunk_size_of(size)
        chunks == sitemap_chunks(unique_pages, chunk_size)
        sitemap_files == [k \in 1..Len(chunks) |-> SitemapChunkName(k)]
    IN  IF Len(unique_pages) <= chunk_size
        THEN SitemapName :> UrlSet(unique_pages)
        ELSE (SitemapName :> SitemapIndex(sitemap_files))
             @@ [name \in {sitemap_files[k] : k \in 1..Len(chunks)} |->
                    UrlSet(chunks[CHOOSE k \in 1..Len(chunks) : sitemap_files[k] = name])]

\* page file names: index.html, a.html, a-2.html, ab.html, b.html
PageNames ==
    { <<"i", "n", "d", "e", "x", ".", "h", "t", "m", "l">>,
      <<"a", ".", "h", "t", "m", "l">>,
      <<"a", "-", "2", ".", "h", "t", "m", "l">>,
      <<"a", "b", ".", "h", "t", "m", "l">>,
      <<"b", ".", "h", "t", "m", "l">> }
MaxPages == 4

InitSitemap ==
    \* distinct page names, then at most one more name that may repeat one of them
    /\ sm_pages \in {base \o extra : base \in SeqsNoRep(PageNames, MaxPages),
                                     extra \in SeqsUpTo(PageNames, 1)}
    /\ sm_chunk_size \in {-1, 0, 1, 2, 4}
    /\ sm_files = EmptyDict
    /\ smpc = "call"
    /\ IdleGen
    /\ IdlePick
    /\ IdleIdx
    /\ IdleChunk
    /\ IdleList
    /\ IdleRel
    /\ IdleSeed
    /\ IdleCollage
    /\ IdleMain
    /\ IdleRun

\* len(unique_pages) <= chunk_size: one urlset, then return
WriteSitemapSingle ==
    /\ smpc = "call"
    /\ Len(unique_pages_of(sm_pages)) <= sitemap_chunk_size_of(sm_chunk_size)
    /\ sm_files' = write_sitemap(sm_pages, sm_chunk_size)
    /\ smpc' = "returned"
    /\ UNCHANGED <<sm_pages, sm_chunk_size, genVars, pickVars, idxVars, chunkVars, listVars,
                   relVars, seedVars, collageVars, mainVars, runVars>>

\* otherwise: the chunk files, then the index
WriteSitemapChunked ==
    /\ smpc = "call"
    /\ Len(unique_pages_of(sm_pages)) > sitemap_chunk_size_of(sm_chunk_size)
    /\ sm_files' = write_sitemap(sm_pages, sm_chunk_size)
    /\ smpc' = "returned"
    /\ UNCHANGED <<sm_pages, sm_chunk_size, genVars, pickVars, idxVars, chunkVars, listVars,
                   relVars, seedVars, collageVars, mainVars, runVars>>

NextSitemap ==
    \/ WriteSitemapSingle
    \/ WriteSitemapChunked

SpecSitemap == InitSitemap /\ [][NextSitemap]_vars

\* the page names of the call, without repeats, in sorted order
UniquePages == unique_pages_of(sm_pages)

\* the chunk size the call works with
ChunkSize == sitemap_chunk_size_of(sm_chunk_size)

ChunkFileNames == DOMAIN sm_files \ {SitemapName}

\* C13: with U unique page names and chunk size C, write_sitemap writes a
\* single sitemap.xml urlset and no sitemap-<n>.xml when U <= C; otherwise
\* it writes exactly the files sitemap-1.xml .. sitemap-ceil(U/C).xml and a
\* sitemap.xml index that references each of them exactly once and nothing
\* else.
C13_SitemapFiles ==
    smpc = "returned" =>
        LET U == Len(UniquePages)
            C == ChunkSize
            n == CeilDiv(U, C)
        IN  IF U <= C
            THEN /\ DOMAIN sm_files = {SitemapName}
                 /\ sm_files[SitemapName].root = "urlset"
            ELSE /\ ChunkFileNames = {SitemapChunkName(k) : k \in 1..n}
                 /\ Cardinality(ChunkFileNames) = n
                 /\ \A name \in ChunkFileNames : sm_files[name].root = "urlset"
                 /\ SitemapName \in DOMAIN sm_files
                 /\ sm_files[SitemapName].root = "sitemapindex"
                 /\ Len(sm_files[SitemapName].locs) = n
                 /\ \A name \in ChunkFileNames :
                       Cardinality({i \in 1..n :
                           sm_files[SitemapName].locs[i] = esc(absolute_url(name))}) = 1

\* five unique pages cut by two: three chunk files and the index
C13_Witness ==
    /\ smpc = "returned"
    /\ Len(UniquePages) = 5
    /\ ChunkSize = 2
    /\ Cardinality(ChunkFileNames) = 3
    /\ sm_files[SitemapName].root = "sitemapindex"

\* the <loc> entries of the chunk files sitemap-1.xml, sitemap-2.xml, ... joined in order
RECURSIVE ChunkLocsFrom(_)
ChunkLocsFrom(k) ==
    IF SitemapChunkName(k) \in DOMAIN sm_files
    THEN sm_files[SitemapChunkName(k)].locs \o ChunkLocsFrom(k + 1)
    ELSE <<>>

\* C14: in the chunked output every unique page name appears in exactly one
\* chunk file, the page names run in sorted order across consecutive chunk
\* files, and no chunk file holds more than C entries.
C14_ChunkContents ==
    (smpc = "returned" /\ Len(UniquePages) > ChunkSize) =>
        /\ ChunkLocsFrom(1) =
              [i \in 1..Len(UniquePages) |-> esc(absolute_url(UniquePages[i]))]
        /\ \A p \in {UniquePages[i] : i \in 1..Len(UniquePages)} :
              Cardinality({name \in ChunkFileNames :
                  \E i \in 1..Len(sm_files[name].locs) :
                      sm_files[name].locs[i] = esc(absolute_url(p))}) = 1
        /\ \A name \in ChunkFileNames :
              /\ Len(sm_files[name].locs) <= ChunkSize
              /\ Len(sm_files[name].locs) >= 1

\* three unique pages, one of them handed over twice, cut by two: chunks of 2 and 1
C14_Witness ==
    /\ smpc = "returned"
    /\ Len(sm_pages) > Len(UniquePages)
    /\ Len(UniquePages) = 3
    /\ ChunkSize = 2
    /\ Len(sm_files[SitemapChunkName(1)].locs) = 2
    /\ Len(sm_files[SitemapChunkName(2)].locs) = 1

-----------------------------------------------------------------------------
(* The three places that cut a list into chunks of a configured size,       *)
(* each run to its end: chunked, write_sitemap, submit_indexnow.            *)

InitClamp ==
    \/ InitChunk
    \/ InitSitemap
    \/ InitIdx

NextClamp ==
    \/ Chunked
    \/ NextSitemap
    \/ NextIdx

SpecClamp == InitClamp /\ [][NextClamp]_vars

\* the list cut into chunks of one element
Singletons(list) == [i \in 1..Len(list) |-> <<list[i]>>]

\* submit_indexnow got a key and at least one URL, and has cut its batches
BatchesCut == ipc \in {"batches", "returned"} /\ KeyGiven /\ CleanUrls # {}

ClampedChunks ==
    /\ (chpc = "returned" /\ ch_size <= 0) => ch_out = Singletons(ch_items)
    /\ (smpc = "returned" /\ sm_chunk_size <= 0) =>
          IF Len(UniquePages) <= 1
          THEN DOMAIN sm_files = {SitemapName}
          ELSE /\ Cardinality(ChunkFileNames) = Len(UniquePages)
               /\ \A k \in 1..Len(UniquePages) :
                     /\ SitemapChunkName(k) \in DOMAIN sm_files
                     /\ sm_files[SitemapChunkName(k)].locs =
                            <<esc(absolute_url(UniquePages[k]))>>
    /\ (BatchesCut /\ config.indexnow_batch_size < 0) =>
          batches = Singletons(SortedStrings(CleanUrls))
    /\ (BatchesCut /\ config.indexnow_batch_size = 0) =>
          batches = <<SortedStrings(CleanUrls)>>
    /\ BatchesCut => \A k \in 1..Len(batches) : batches[k] # <<>>

CallReturned == chpc = "returned" \/ smpc = "returned" \/ ipc = "returned"

\* the batch loop posts one batch per iteration and stops at the end of the list
LoopBounded ==
    ipc \in {"batches", "returned"} =>
        /\ bi <= Len(batches) + 1
        /\ bi >= 1 => Len(posted) = bi - 1
        /\ ipc = "returned" /\ bi >= 1 => bi = Len(batches) + 1

\* C12: for a chunk size <= 0, chunked, write_sitemap and submit_indexnow
\* cut the list as the size 1 would (submit_indexnow takes 0 as the default
\* 10000, so as one batch here), no chunk is empty, and the batch loop
\* ends after one pass over the batches.
C12_InvalidSizeClamped == ClampedChunks /\ LoopBounded

\* submit_indexnow with batch size -1 and two URLs has posted two batches of one URL
C12_Witness ==
    /\ ipc = "returned"
    /\ config.indexnow_batch_size = -1
    /\ Len(batches) = 2
    /\ Len(posted) = 2
    /\ Len(posted[1]) = 1

-----------------------------------------------------------------------------
(* write_static_pages: the home page, the guide listing pages, the static pages *)

\* the builds generate makes for the keywords kws (each with enough products):
\* the groups sorted by norm(keyword), one slug each from the registry
generate_builds(kws, products) ==
    LET RECURSIVE BuildLoop(_, _)
        BuildLoop(ordered, used) ==
            IF ordered = <<>> THEN <<>>
            ELSE LET u == unique_slug(Head(ordered).keyword, used)
                 IN  <<ArticleBuild(Head(ordered).keyword, u.slug, products)>>
                     \o BuildLoop(Tail(ordered), u.used)
    IN  BuildLoop(SortGroups([i \in 1..Len(kws) |-> [keyword |-> kws[i]]]), EmptyDict)

\* a variant that offers a Next link on the last page too
render_guides_page_next_always(page_items, page_number, total_pages) ==
    LET Name(n) == <<"a", "l", "l", "-", "g", "u", "i", "d", "e", "s", "-">> \o IntToStr(n) \o <<".", "h", "t", "m", "l">>
    IN  [kind |-> "guides",
         cards |-> [i \in 1..Len(page_items) |-> esc(page_items[i].slug) \o <<".", "h", "t", "m", "l">>],
         prev_link |-> IF page_number > 1 THEN Name(page_number - 1) ELSE <<>>,
         next_link |-> Name(page_number + 1),
         current_path |-> IF page_number = 1 THEN <<"a", "l", "l", "-", "g", "u", "i", "d", "e", "s", ".", "h", "t", "m", "l">> ELSE Name(page_number),
         page_number |-> page_number,
         total_pages |-> total_pages]

\* the listing page: its cards, the Previous / Next links of its controls (empty
\* when the link is left out), and the "Page n of T" numbers
render_guides_page(page_items, page_number, total_pages) ==
    LET Name(n) == <<"a", "l", "l", "-", "g", "u", "i", "d", "e", "s", "-">> \o IntToStr(n) \o <<".", "h", "t", "m", "l">>
    IN  [kind |-> "guides",
         cards |-> [i \in 1..Len(page_items) |-> esc(page_items[i].slug) \o <<".", "h", "t", "m", "l">>],
         prev_link |-> IF page_number > 1 THEN Name(page_number - 1) ELSE <<>>,
         next_link |-> IF page_number < total_pages THEN Name(page_number + 1) ELSE <<>>,
         current_path |-> IF page_number = 1 THEN <<"a", "l", "l", "-", "g", "u", "i", "d", "e", "s", ".", "h", "t", "m", "l">> ELSE Name(page_number),
         page_number |-> page_number,
         total_pages |-> total_pages]

\* the file names of the six static pages, in the order they are appended
StaticPageNames ==
    << <<"a", "b", "o", "u", "t", ".", "h", "t", "m", "l">>,
       <<"c", "o", "n", "t", "a", "c", "t", ".", "h", "t", "m", "l">>,
       <<"a", "f", "f", "i", "l", "i", "a", "t", "e", "-", "d", "i", "s", "c", "l", "o", "s", "u", "r", "e", ".", "h", "t", "m", "l">>,
       <<"e", "d", "i", "t", "o", "r", "i", "a", "l", "-", "p", "o", "l", "i", "c", "y", ".", "h", "t", "m", "l">>,
       <<"p", "r", "i", "v", "a", "c", "y", "-", "p", "o", "l", "i", "c", "y", ".", "h", "t", "m", "l">>,
       <<"t", "e", "r", "m", "s", "-", "o", "f", "-", "u", "s", "e", ".", "h", "t", "m", "l">> >>

\* the pages list of write_static_pages, written to disk in this order
write_static_pages(site_builds, guides_page_size) ==
    LET ordered_builds == SortGroups(site_builds)
        guide_chunks == chunked(ordered_builds, Max(1, guides_page_size))
        filename(idx) ==
            IF idx = 1 THEN <<"a", "l", "l", "-", "g", "u", "i", "d", "e", "s", ".", "h", "t", "m", "l">> ELSE <<"a", "l", "l", "-", "g", "u", "i", "d", "e", "s", "-">> \o IntToStr(idx) \o <<".", "h", "t", "m", "l">>
    IN  << <<<<"i", "n", "d", "e", "x", ".", "h", "t", "m", "l">>, [kind |-> "home"]>> >>
        \o [idx \in 1..Len(guide_chunks) |->
               <<filename(idx), render_guides_page(guide_chunks[idx], idx, Len(guide_chunks))>>]
        \o [i \in 1..Len(StaticPageNames) |-> <<StaticPageNames[i], [kind |-> "static"]>>]

\* the products of every build of the listing inputs
ListingProducts == pick_products(ItemsFourDistinct, MinTopN)

MaxListed == 4

InitList ==
    /\ ws_builds \in {generate_builds(kws, ListingProducts) :
                        kws \in SeqsNoRep(Keywords, MaxListed) \ {<<>>}}
    /\ ws_page_size \in {-1, 0, 1, 2, 3}
    /\ ws_pages = <<>>
    /\ wspc = "call"
    /\ IdleGen
    /\ IdlePick
    /\ IdleIdx
    /\ IdleChunk
    /\ IdleSitemap
    /\ IdleRel
    /\ IdleSeed
    /\ IdleCollage
    /\ IdleMain
    /\ IdleRun

WriteStaticPages ==
    /\ wspc = "call"
    /\ ws_pages' = write_static_pages(ws_builds, ws_page_size)
    /\ wspc' = "returned"
    /\ UNCHANGED <<ws_builds, ws_page_size, genVars, pickVars, idxVars, chunkVars, sitemapVars,
                   relVars, seedVars, collageVars, mainVars, runVars>>

SpecList == InitList /\ [][WriteStaticPages]_vars

\* the listing pages among the pages written, in order
ListingPages == SelectSeq(ws_pages, LAMBDA pg : pg[2].kind = "guides")

\* C15: for a listing of T chunks, write_static_pages emits exactly T listing
\* pages, page 1 as all-guides.html and page n > 1 as all-guides-<n>.html;
\* page n shows the total T, has a Previous link exactly when n > 1 and a
\* Next link exactly when n < T.
C15_ListingPages ==
    wspc = "returned" =>
        LET T == CeilDiv(Len(ws_builds), IF ws_page_size < 1 THEN 1 ELSE ws_page_size)
        IN  /\ Len(ListingPages) = T
            /\ \A n \in 1..Len(ListingPages) :
                  /\ ListingPages[n][1] =
                        IF n = 1 THEN <<"a", "l", "l", "-", "g", "u", "i", "d", "e", "s", ".", "h", "t", "m", "l">>
                        ELSE <<"a", "l", "l", "-", "g", "u", "i", "d", "e", "s", "-">> \o IntToStr(n) \o <<".", "h", "t", "m", "l">>
                  /\ ListingPages[n][2].page_number = n
                  /\ ListingPages[n][2].total_pages = T
                  /\ ListingPages[n][2].prev_link # <<>> <=> n > 1
                  /\ ListingPages[n][2].next_link # <<>> <=> n < T

\* four builds listed two per page: two listing pages, the first with a Next
\* link only, the second with a Previous link only
C15_Witness ==
    /\ wspc = "returned"
    /\ Len(ws_builds) = 4
    /\ ws_page_size = 2
    /\ Len(ListingPages) = 2
    /\ ListingPages[1][2].prev_link = <<>>
    /\ ListingPages[1][2].next_link # <<>>
    /\ ListingPages[2][2].prev_link # <<>>
    /\ ListingPages[2][2].next_link = <<>>

\* C26: every Previous / Next link of a listing page names a listing file
\* that write_static_pages emits in the same run; the Previous link of page 2
\* names all-guides.html, the file of page 1.
C26_LinksResolve ==
    wspc = "returned" =>
        LET emitted == {ListingPages[k][1] : k \in 1..Len(ListingPages)}
        IN  \A n \in 1..Len(ListingPages) :
                /\ ListingPages[n][2].prev_link # <<>> => ListingPages[n][2].prev_link \in emitted
                /\ ListingPages[n][2].next_link # <<>> => ListingPages[n][2].next_link \in emitted
                /\ n = 2 => ListingPages[n][2].prev_link = ListingPages[1][1]

-----------------------------------------------------------------------------
(* build_related_map *)

\* the significant tokens of a keyword: the [a-z0-9]+ runs of norm(keyword)
\* that are longer than two characters and are not stop words
keyword_tokens(keyword) ==
    LET t == norm(keyword)
        IsRun(i, j) ==
            /\ \A k \in i..j : IsAlnumLower(t[k])
            /\ i = 1 \/ ~IsAlnumLower(t[i - 1])
            /\ j = Len(t) \/ ~IsAlnumLower(t[j + 1])
        tokens == {SubSeq(t, i, j) : <<i, j>> \in
                      {ij \in (1..Len(t)) \X (1..Len(t)) : ij[1] <= ij[2] /\ IsRun(ij[1], ij[2])}}
        stop == { <<"f", "o", "r">>, <<"t", "h", "e">>, <<"a", "n", "d">>, <<"w", "i", "t", "h">>,
                  <<"b", "e", "s", "t">>, <<"t", "o", "p">>, <<"g", "u", "i", "d", "e">>,
                  <<"i", "n">>, <<"t", "o">>, <<"o", "f">> }
    IN  {tok \in tokens : tok \notin stop /\ Len(tok) > 2}

\* a variant that keeps per_page entries even when per_page is below 1
build_related_map_unclamped(site_builds, per_page) ==
    LET all_slugs == [i \in 1..Len(site_builds) |-> site_builds[i].slug]
        LastOf(slug) ==
            CHOOSE i \in 1..Len(site_builds) :
                /\ site_builds[i].slug = slug
                /\ \A j \in 1..Len(site_builds) : site_builds[j].slug = slug => j <= i
        token_map(slug) == keyword_tokens(site_builds[LastOf(slug)].keyword)
        overlap(slug, other) == Cardinality(token_map(slug) \cap token_map(other))
        Before(x, y) == x[1] > y[1] \/ (x[1] = y[1] /\ StrLess(x[2], y[2]))
        RECURSIVE Insert(_, _)
        Insert(x, sorted) ==
            IF sorted = <<>> THEN <<x>>
            ELSE IF Before(x, Head(sorted)) THEN <<x>> \o sorted
                 ELSE <<Head(sorted)>> \o Insert(x, Tail(sorted))
        RECURSIVE Sort(_)
        Sort(q) == IF q = <<>> THEN <<>> ELSE Insert(q[Len(q)], Sort(SubSeq(q, 1, Len(q) - 1)))
        Take(q, n) == SubSeq(q, 1, Min(n, Len(q)))
        others(slug) == SelectSeq(all_slugs, LAMBDA other : other # slug)
        scores(slug) ==
            LET hits == SelectSeq(others(slug), LAMBDA other : overlap(slug, other) > 0)
            IN  [k \in 1..Len(hits) |-> <<overlap(slug, hits[k]), hits[k]>>]
        picks(slug) ==
            IF scores(slug) # <<>>
            THEN LET ranked == Sort(scores(slug))
                 IN  Take([k \in 1..Len(ranked) |-> ranked[k][2]], per_page)
            ELSE Take(others(slug), per_page)
    IN  [slug \in {all_slugs[i] : i \in 1..Len(all_slugs)} |-> picks(slug)]

\* the dict slug -> neighbour slugs: token_map is a dict keyed by slug (a later
\* build of the same slug replaces the tokens), the loop runs over all_slugs
\* and skips every entry equal to the current slug, the (overlap, other)
\* pairs are sorted by (-overlap, other), and max(1, per_page) are kept
build_related_map(site_builds, per_page) ==
    LET all_slugs == [i \in 1..Len(site_builds) |-> site_builds[i].slug]
        LastOf(slug) ==
            CHOOSE i \in 1..Len(site_builds) :
                /\ site_builds[i].slug = slug
                /\ \A j \in 1..Len(site_builds) : site_builds[j].slug = slug => j <= i
        token_map(slug) == keyword_tokens(site_builds[LastOf(slug)].keyword)
        overlap(slug, other) == Cardinality(token_map(slug) \cap token_map(other))
        Before(x, y) == x[1] > y[1] \/ (x[1] = y[1] /\ StrLess(x[2], y[2]))
        RECURSIVE Insert(_, _)
        Insert(x, sorted) ==
            IF sorted = <<>> THEN <<x>>
            ELSE IF Before(x, Head(sorted)) THEN <<x>> \o sorted
                 ELSE <<Head(sorted)>> \o Insert(x, Tail(sorted))
        RECURSIVE Sort(_)
        Sort(q) == IF q = <<>> THEN <<>> ELSE Insert(q[Len(q)], Sort(SubSeq(q, 1, Len(q) - 1)))
        Take(q, n) == SubSeq(q, 1, Min(n, Len(q)))
        others(slug) == SelectSeq(all_slugs, LAMBDA other : other # slug)
        scores(slug) ==
            LET hits == SelectSeq(others(slug), LAMBDA other : overlap(slug, other) > 0)
            IN  [k \in 1..Len(hits) |-> <<overlap(slug, hits[k]), hits[k]>>]
        picks(slug) ==
            IF scores(slug) # <<>>
            THEN LET ranked == Sort(scores(slug))
                 IN  Take([k \in 1..Len(ranked) |-> ranked[k][2]], Max(1, per_page))
            ELSE Take(others(slug), Max(1, per_page))
    IN  [slug \in {all_slugs[i] : i \in 1..Len(all_slugs)} |-> picks(slug)]

\* keywords of related pages: "red sox", "Red Sox", "red sox 2", "red cap"
\* share tokens; "to", "To", "to 2" have no significant token
RelatedKeywords ==
    { <<"r", "e", "d", " ", "s", "o", "x">>,
      <<"R", "e", "d", " ", "S", "o", "x">>,
      <<"r", "e", "d", " ", "s", "o", "x", " ", "2">>,
      <<"r", "e", "d", " ", "c", "a", "p">>,
      <<"t", "o">>, <<"T", "o">>, <<"t", "o", " ", "2">> }

MaxRelated == 4

InitRel ==
    /\ rel_builds \in {generate_builds(kws, ListingProducts) :
                         kws \in SeqsNoRep(RelatedKeywords, MaxRelated) \ {<<>>}}
    /\ rel_per_page \in {-1, 0, 1, 2, 3}
    /\ related = EmptyDict
    /\ relpc = "call"
    /\ IdleGen
    /\ IdlePick
    /\ IdleIdx
    /\ IdleChunk
    /\ IdleSitemap
    /\ IdleList
    /\ IdleSeed
    /\ IdleCollage
    /\ IdleMain
    /\ IdleRun

BuildRelatedMap ==
    /\ relpc = "call"
    /\ related' = build_related_map(rel_builds, rel_per_page)
    /\ relpc' = "returned"
    /\ UNCHANGED <<rel_builds, rel_per_page, genVars, pickVars, idxVars, chunkVars,
                   sitemapVars, listVars, seedVars, collageVars, mainVars, runVars>>

SpecRel == InitRel /\ [][BuildRelatedMap]_vars

-----------------------------------------------------------------------------
(* Claims about build_related_map; a page is a position of rel_builds *)

Pages == 1..Len(rel_builds)

\* the token-overlap score of two pages
Score(i, j) ==
    Cardinality(keyword_tokens(rel_builds[i].keyword) \cap keyword_tokens(rel_builds[j].keyword))

\* the other pages that share a token with page i
Candidates(i) == {j \in Pages \ {i} : Score(i, j) > 0}

\* the neighbour list the map holds for page i
Neighbours(i) == related[rel_builds[i].slug]

\* the slugs of the candidates of page i, by score descending, then slug ascending
RankedCandidates(i) ==
    LET Better(a, b) ==
            \/ Score(i, a) > Score(i, b)
            \/ Score(i, a) = Score(i, b) /\ StrLess(rel_builds[a].slug, rel_builds[b].slug)
        RECURSIVE Rank(_)
        Rank(S) ==
            IF S = {} THEN <<>>
            ELSE LET best == CHOOSE a \in S : \A b \in S : ~Better(b, a)
                 IN  <<rel_builds[best].slug>> \o Rank(S \ {best})
    IN  Rank(Candidates(i))

\* the slugs of all pages but page i, in build order
OtherPages(i) ==
    LET idx == SelectSeq([j \in Pages |-> j], LAMBDA j : j # i)
    IN  [k \in 1..Len(idx) |-> rel_builds[idx[k]].slug]

FirstK(q, k) == SubSeq(q, 1, IF k < Len(q) THEN k ELSE Len(q))

\* C16: a page that shares a token with some other page gets exactly the
\* first K of all the other pages of score > 0, ranked by score descending
\* and then slug ascending (K >= 1).
C16_RankedNeighbours ==
    (relpc = "returned" /\ rel_per_page >= 1) =>
        \A i \in Pages :
            Candidates(i) # {} => Neighbours(i) = FirstK(RankedCandidates(i), rel_per_page)

\* C17: a page that shares no token with any other page gets the first K
\* pages of the build order, itself left out (K >= 1).
C17_FallbackNeighbours ==
    (relpc = "returned" /\ rel_per_page >= 1) =>
        \A i \in Pages :
            Candidates(i) = {} => Neighbours(i) = FirstK(OtherPages(i), rel_per_page)

\* C18: with two or more builds every page has a non-empty neighbour list,
\* whatever the requested count K, K <= 0 included.
C18_NeverEmpty ==
    (relpc = "returned" /\ Len(rel_builds) >= 2) =>
        \A i \in Pages :
            /\ rel_builds[i].slug \in DOMAIN related
            /\ Neighbours(i) # <<>>

\* K = 0 and two pages that share no token: the fallback still gives one neighbour
C18_Witness ==
    /\ relpc = "returned"
    /\ rel_per_page = 0
    /\ Len(rel_builds) = 2
    /\ Candidates(1) = {}
    /\ Len(Neighbours(1)) = 1

\* C28: the map has exactly one entry per build, and every neighbour list
\* leaves out the page's own slug, holds no slug twice, holds only slugs of
\* builds, and is at most max(1, K) long.
C28_MapInvariants ==
    relpc = "returned" =>
        LET slugs == {rel_builds[i].slug : i \in Pages}
        IN  /\ DOMAIN related = slugs
            /\ Cardinality(DOMAIN related) = Len(rel_builds)
            /\ \A s \in DOMAIN related :
                  /\ \A k \in 1..Len(related[s]) : related[s][k] # s /\ related[s][k] \in slugs
                  /\ \A k, l \in 1..Len(related[s]) : k # l => related[s][k] # related[s][l]
                  /\ Len(related[s]) <= (IF rel_per_page < 1 THEN 1 ELSE rel_per_page)

-----------------------------------------------------------------------------
(* The feature collage and the seeded random sources of generate *)

\* re.sub(r"(?i)\bbest\s+", "", keyword).strip()
clean_keyword(keyword) ==
    LET IsWordChar(c) == IsAlnumLower(LowerChar(c)) \/ c = "_"
        RECURSIVE SkipSpaces(_)
        SkipSpaces(i) == IF i <= Len(keyword) /\ IsSpace(keyword[i]) THEN SkipSpaces(i + 1) ELSE i
        Matches(i) ==
            /\ i + 4 <= Len(keyword)
            /\ i = 1 \/ ~IsWordChar(keyword[i - 1])
            /\ LowerStr(SubSeq(keyword, i, i + 3)) = <<"b", "e", "s", "t">>
            /\ IsSpace(keyword[i + 4])
        RECURSIVE Sub(_)
        Sub(i) ==
            IF i > Len(keyword) THEN <<>>
            ELSE IF Matches(i) THEN Sub(SkipSpaces(i + 4))
                 ELSE <<keyword[i]>> \o Sub(i + 1)
    IN  Strip(Sub(1))

\* str.title(): a letter is upper-cased after a non-letter and lower-cased after a letter
title(text) ==
    LET IsLetter(c) == LowerChar(c) \in LowerLetters
        UpperChar(c) ==
            IF c \in LowerLetters
            THEN UpperChars[CHOOSE i \in 1..Len(LowerChars) : LowerChars[i] = c]
            ELSE c
    IN  [i \in 1..Len(text) |->
            IF ~IsLetter(text[i]) THEN text[i]
            ELSE IF i > 1 /\ IsLetter(text[i - 1]) THEN LowerChar(text[i])
                 ELSE UpperChar(text[i])]

\* " ".join(clean_keyword(keyword).title().split()[:max_words]), "Top Picks" without words
short_overlay_text(keyword, max_words) ==
    LET words == CollapseWs(Strip(title(clean_keyword(keyword))))
    IN  IF words = <<>> THEN <<"T", "o", "p", " ", "P", "i", "c", "k", "s">>
        ELSE IF WordCount(words) > max_words THEN FirstWords(words, max_words)
             ELSE words

\* the first `limit` distinct non-blank image URLs of the products, trimmed, in order
pick_feature_image_urls(products, limit) ==
    LET RECURSIVE Loop(_, _)
        Loop(i, found) ==
            IF i > Len(products) THEN found
            ELSE LET u == Strip(products[i].image_url)
                 IN  IF u = <<>> \/ \E k \in 1..Len(found) : found[k] = u
                     THEN Loop(i + 1, found)
                     \* the limit is tested after the append
                     ELSE IF Len(found) + 1 >= limit THEN Append(found, u)
                          ELSE Loop(i + 1, Append(found, u))
    IN  Loop(1, <<>>)

FeatureImageCount == 4

\* feature_style_variants()
feature_style_variants ==
    << [layout |-> "layout-a", overlay |-> "overlay-a", font |-> "font-a"],
       [layout |-> "layout-b", overlay |-> "overlay-b", font |-> "font-b"],
       [layout |-> "layout-c", overlay |-> "overlay-c", font |-> "font-c"],
       [layout |-> "layout-d", overlay |-> "overlay-d", font |-> "font-d"] >>

\* a variant that pads with the placeholder instead of the last image
prepare_feature_collage_pad_logo(build, choice) ==
    LET picked == pick_feature_image_urls(build.products, FeatureImageCount)
        logo == <<"a", "s", "s", "e", "t", "s", "/", "s", "i", "t", "e", "-", "l", "o", "g", "o", ".", "s", "v", "g">>
        variant == feature_style_variants[choice]
    IN  [feature_primary_image |-> IF picked = <<>> THEN logo ELSE picked[1],
         feature_images |-> [k \in 1..FeatureImageCount |-> IF k <= Len(picked) THEN picked[k] ELSE logo],
         feature_layout |-> variant.layout,
         feature_overlay |-> variant.overlay,
         feature_font |-> variant.font,
         feature_text |-> short_overlay_text(build.keyword, 6) \o <<" ", "P", "i", "c", "k", "s">>]

\* the feature fields prepare_feature_collage sets on a build, given the index
\* rng.choice picked in feature_style_variants()
prepare_feature_collage(build, choice) ==
    LET picked == pick_feature_image_urls(build.products, FeatureImageCount)
        images == IF picked = <<>> THEN << <<"a", "s", "s", "e", "t", "s", "/", "s", "i", "t", "e", "-", "l", "o", "g", "o", ".", "s", "v", "g">> >> ELSE picked
        padded == [k \in 1..FeatureImageCount |->
                      IF k <= Len(images) THEN images[k] ELSE images[Len(images)]]
        variant == feature_style_variants[choice]
    IN  [feature_primary_image |-> padded[1],
         feature_images |-> padded,
         feature_layout |-> variant.layout,
         feature_overlay |-> variant.overlay,
         feature_font |-> variant.font,
         feature_text |-> short_overlay_text(build.keyword, 6) \o <<" ", "P", "i", "c", "k", "s">>]

\* the image URLs of the selected products, as load_products cleaned them:
\* none, or one of five addresses
ImageUrls == { <<>>, <<"u", "1">>, <<"u", "2">>, <<"u", "3">>, <<"u", "4">>, <<"u", "5">> }

MaxPicked == 5

\* a build of MinPicks to MaxPicked selected products, any image URL each
InitCollage ==
    /\ fc_build \in
          { ArticleBuild(<<"b", "e", "s", "t", " ", "c", "a", "p">>, <<"b", "e", "s", "t", "-", "c", "a", "p">>,
                         [i \in 1..Len(us) |-> [image_url |-> us[i], product_name |-> <<"p">> \o IntToStr(i)]]) :
              us \in UNION {[1..n -> ImageUrls] : n \in MinPicks..MaxPicked} }
    /\ fc_collage = <<>>
    /\ fcpc = "call"
    /\ IdleGen
    /\ IdlePick
    /\ IdleIdx
    /\ IdleChunk
    /\ IdleSitemap
    /\ IdleList
    /\ IdleRel
    /\ IdleSeed
    /\ IdleMain
    /\ IdleRun

\* the call: the random source picks one of the style variants
PrepareFeatureCollage ==
    /\ fcpc = "call"
    /\ \E choice \in 1..Len(feature_style_variants) :
          fc_collage' = prepare_feature_collage(fc_build, choice)
    /\ fcpc' = "returned"
    /\ UNCHANGED <<fc_build, genVars, pickVars, idxVars, chunkVars, sitemapVars, listVars,
                   relVars, seedVars, mainVars, runVars>>

SpecCollage == InitCollage /\ [][PrepareFeatureCollage]_vars

\* the distinct non-empty image URLs of the products of the build, in product
\* order, each at its first place
DistinctImages ==
    LET ps == fc_build.products
        firsts == SelectSeq([i \in 1..Len(ps) |-> i],
                            LAMBDA i : ps[i].image_url # <<>>
                                       /\ \A j \in 1..(i - 1) : ps[j].image_url # ps[i].image_url)
    IN  [k \in 1..Len(firsts) |-> ps[firsts[k]].image_url]

\* C21: after prepare_feature_collage the collage has exactly 4 images; they
\* start with the first (up to 4) distinct non-empty image URLs of the
\* products, in product order; with fewer than 4 the remaining places repeat
\* the last of them; with none every place is the placeholder; the primary
\* image is the first entry.
C21_CollageImages ==
    fcpc = "returned" =>
        LET images == fc_collage.feature_images
            n == IF Len(DistinctImages) < 4 THEN Len(DistinctImages) ELSE 4
        IN  /\ Len(images) = 4
            /\ \A k \in 1..n : images[k] = DistinctImages[k]
            /\ n > 0 => \A k \in (n + 1)..4 : images[k] = DistinctImages[n]
            /\ n = 0 => \A k \in 1..4 :
                  images[k] = <<"a", "s", "s", "e", "t", "s", "/", "s", "i", "t", "e", "-", "l", "o", "g", "o", ".", "s", "v", "g">>
            /\ {images[k] : k \in 1..4} =
                  IF n = 0 THEN {images[1]} ELSE {DistinctImages[k] : k \in 1..n}
            /\ fc_collage.feature_primary_image = images[1]

\* five products with the images u2, none, u2, u1, none: the collage is u2, u1, u1, u1
C21_Witness ==
    /\ fcpc = "returned"
    /\ Len(fc_build.products) = 5
    /\ fc_build.products[2].image_url = <<>>
    /\ fc_build.products[1].image_url = fc_build.products[3].image_url
    /\ fc_collage.feature_images = << <<"u", "2">>, <<"u", "1">>, <<"u", "1">>, <<"u", "1">> >>
    /\ fc_collage.feature_primary_image = <<"u", "2">>

\* a variant whose seed material also counts the pages prepared before
feature_seed_with_position(run_seed, build_slug, position) ==
    run_seed \o <<"|", "f", "e", "a", "t", "u", "r", "e", "|">> \o build_slug \o <<"|">> \o IntToStr(position)

\* f"{run_seed}|feature|{build.slug}" (position: the build's place in builds)
feature_seed(run_seed, build_slug, position) ==
    run_seed \o <<"|", "f", "e", "a", "t", "u", "r", "e", "|">> \o build_slug

\* f"{run_seed}|{norm(build.keyword)}"
body_seed(run_seed, keyword) == run_seed \o <<"|">> \o norm(keyword)

\* the products of every build of the seeded runs: ListingProducts with image
\* URLs "u1", " u1" (the same after trimming) and a blank one
SeedProducts ==
    LET image_urls == << <<"u", "1">>, <<" ", "u", "1">>, <<>> >>
    IN  [i \in 1..Len(ListingProducts) |->
            [image_url |-> image_urls[((i - 1) % 3) + 1]] @@ ListingProducts[i]]

\* the keyword lists of the runs, in the order load_products met them:
\* "sox"; "sox", "Sox"; "feature|sox", "sox"; "best cap", "sox"
SeedInputs ==
    { << <<"s", "o", "x">> >>,
      << <<"s", "o", "x">>, <<"S", "o", "x">> >>,
      << <<"f", "e", "a", "t", "u", "r", "e", "|", "s", "o", "x">>, <<"s", "o", "x">> >>,
      << <<"b", "e", "s", "t", " ", "c", "a", "p">>, <<"s", "o", "x">> >> }

\* the seed argument (empty: none given) and what the clock shows at the start of a run
SeedArgs == { <<>>, <<"s">> }
ClockTexts == { <<"1">>, <<"2">> }

InitSeed ==
    /\ sd_runs \in [1..2 -> [seed : SeedArgs, now : ClockTexts, grouped : SeedInputs,
                             run_seed : {<<>>}, builds : {<<>>}, collages : {<<>>},
                             visual : {<<>>}, body : {<<>>}, pc : {"call"}]]
    \* the clock is read only when no seed is given
    /\ \A r \in 1..2 : sd_runs[r].seed # <<>> => sd_runs[r].now = <<"1">>
    /\ sd_draws = EmptyDict
    /\ IdleGen
    /\ IdlePick
    /\ IdleIdx
    /\ IdleChunk
    /\ IdleSitemap
    /\ IdleList
    /\ IdleRel
    /\ IdleCollage
    /\ IdleMain
    /\ IdleRun

\* the second run starts when the first has ended
SeedTurn(r) == r = 1 \/ sd_runs[1].pc = "done"

SeedRest == <<genVars, pickVars, idxVars, chunkVars, sitemapVars, listVars, relVars,
              collageVars, mainVars, runVars>>

\* run_seed = seed or <clock>, then the builds loop
SeedStart(r) ==
    /\ SeedTurn(r)
    /\ sd_runs[r].pc = "call"
    /\ sd_runs' = [sd_runs EXCEPT
          ![r].run_seed = IF sd_runs[r].seed # <<>> THEN sd_runs[r].seed ELSE sd_runs[r].now,
          ![r].builds = generate_builds(sd_runs[r].grouped, SeedProducts),
          ![r].pc = "collage"]
    /\ UNCHANGED <<sd_draws, SeedRest>>

\* one iteration of "for build in builds": a new random source seeded with the
\* feature material, one choice drawn from it by prepare_feature_collage
SeedCollage(r) ==
    /\ SeedTurn(r)
    /\ sd_runs[r].pc = "collage"
    /\ Len(sd_runs[r].collages) < Len(sd_runs[r].builds)
    /\ LET position == Len(sd_runs[r].collages) + 1
           build == sd_runs[r].builds[position]
           material == feature_seed(sd_runs[r].run_seed, build.slug, position)
       IN  \E choice \in 1..Len(feature_style_variants) :
              \* a source seeded with the same material answers the same
              /\ material \in DOMAIN sd_draws => choice = sd_draws[material]
              /\ sd_draws' = DictPut(sd_draws, material, choice)
              /\ sd_runs' = [sd_runs EXCEPT
                    ![r].collages = Append(@, prepare_feature_collage(build, choice)),
                    ![r].visual = Append(@, [material |-> material, drawn |-> 1])]
    /\ UNCHANGED SeedRest

\* after the collages: on to the article pages
SeedCollagesDone(r) ==
    /\ SeedTurn(r)
    /\ sd_runs[r].pc = "collage"
    /\ Len(sd_runs[r].collages) = Len(sd_runs[r].builds)
    /\ sd_runs' = [sd_runs EXCEPT ![r].pc = "render"]
    /\ UNCHANGED <<sd_draws, SeedRest>>

\* one article page: a new random source seeded with the body material, from
\* which render_article_page draws for the intro and again for every product
\* (counted here as one draw each)
SeedRender(r) ==
    /\ SeedTurn(r)
    /\ sd_runs[r].pc = "render"
    /\ Len(sd_runs[r].body) < Len(sd_runs[r].builds)
    /\ LET build == sd_runs[r].builds[Len(sd_runs[r].body) + 1]
           material == body_seed(sd_runs[r].run_seed, build.keyword)
       IN  sd_runs' = [sd_runs EXCEPT
               ![r].body = Append(@, [material |-> material,
                                      drawn |-> 1 + Len(build.products)])]
    /\ UNCHANGED <<sd_draws, SeedRest>>

SeedDone(r) ==
    /\ SeedTurn(r)
    /\ sd_runs[r].pc = "render"
    /\ Len(sd_runs[r].body) = Len(sd_runs[r].builds)
    /\ sd_runs' = [sd_runs EXCEPT ![r].pc = "done"]
    /\ UNCHANGED <<sd_draws, SeedRest>>

NextSeed ==
    \E r \in 1..2 :
        \/ SeedStart(r)
        \/ SeedCollage(r)
        \/ SeedCollagesDone(r)
        \/ SeedRender(r)
        \/ SeedDone(r)

SpecSeed == InitSeed /\ [][NextSeed]_vars

-----------------------------------------------------------------------------
(* Claims about the seeded random sources *)

BothDone == sd_runs # <<>> /\ sd_runs[1].pc = "done" /\ sd_runs[2].pc = "done"

\* the (keyword, slug) pairs of a run, in build order
SlugsOf(r) ==
    [i \in 1..Len(sd_runs[r].builds) |->
        <<sd_runs[r].builds[i].keyword, sd_runs[r].builds[i].slug>>]

\* the pages of a run whose collage is prepared
Prepared(r) == 1..Len(sd_runs[r].collages)

\* C19: two runs with the same non-empty seed and the same input give every
\* keyword the same slug and every page the same layout, overlay, font,
\* collage images and caption; and between any two runs of the same run
\* seed, pages of the same slug have the same visual seed material and the
\* same visual variant, wherever they stand in the builds.
C19_Determinism ==
    /\ (/\ BothDone
        /\ sd_runs[1].seed # <<>>
        /\ sd_runs[1].seed = sd_runs[2].seed
        /\ sd_runs[1].grouped = sd_runs[2].grouped)
       => (SlugsOf(1) = SlugsOf(2) /\ sd_runs[1].collages = sd_runs[2].collages)
    /\ sd_runs # <<>> =>
          \A r1, r2 \in 1..2 : \A i \in Prepared(r1), j \in Prepared(r2) :
              (/\ sd_runs[r1].run_seed = sd_runs[r2].run_seed
               /\ sd_runs[r1].builds[i].slug = sd_runs[r2].builds[j].slug)
              => /\ sd_runs[r1].visual[i].material = sd_runs[r2].visual[j].material
                 /\ sd_runs[r1].collages[i].feature_layout = sd_runs[r2].collages[j].feature_layout
                 /\ sd_runs[r1].collages[i].feature_overlay = sd_runs[r2].collages[j].feature_overlay
                 /\ sd_runs[r1].collages[i].feature_font = sd_runs[r2].collages[j].feature_font

\* both runs ended with seed "s" and the keywords "sox", "Sox": two pages each,
\* slugs sox and sox-2, the same collages
C19_Witness ==
    /\ BothDone
    /\ sd_runs[1].seed = <<"s">>
    /\ sd_runs[2].seed = <<"s">>
    /\ sd_runs[1].grouped = sd_runs[2].grouped
    /\ Len(sd_runs[1].collages) = 2
    /\ sd_runs[1].builds[2].slug = <<"s", "o", "x", "-", "2">>
    /\ sd_runs[1].collages = sd_runs[2].collages
    /\ sd_runs[1].collages[1].feature_layout # sd_runs[1].collages[2].feature_layout

\* C20: within one run no page's body-text seed material equals any page's
\* visual seed material, and the visual sources stay at their one draw
\* whatever is drawn from the body-text sources.
C20_DistinctStreams ==
    sd_runs # <<>> =>
        \A r \in 1..2 :
            \A i \in 1..Len(sd_runs[r].body), j \in 1..Len(sd_runs[r].visual) :
                /\ sd_runs[r].body[i].material # sd_runs[r].visual[j].material
                /\ sd_runs[r].visual[j].drawn = 1

-----------------------------------------------------------------------------
(* main: the SiteConfig and the top_n built from the merged settings *)

\* a setting that is absent from the merged settings (settings.get gives None)
None == <<"None">>

\* parse_bool_like(value, default=False)
parse_bool_like(value, default) ==
    LET text == LowerStr(Strip(IF value = None THEN <<>> ELSE value))
    IN  IF text \in { <<"1">>, <<"t", "r", "u", "e">>, <<"y", "e", "s">>, <<"y">>, <<"o", "n">> } THEN TRUE
        ELSE IF text \in { <<"0">>, <<"f", "a", "l", "s", "e">>, <<"n", "o">>, <<"n">>, <<"o", "f", "f">> } THEN FALSE
        ELSE default

\* first_non_empty(value, fallback=...): the trimmed text, the fallback for None or a blank
first_non_empty(value, fallback) ==
    IF value # None /\ Strip(value) # <<>> THEN Strip(value) ELSE fallback

\* the numeric and IndexNow fields of the SiteConfig main builds, and top_n
main_config(settings) ==
    LET StrOf(value) == IF value = None THEN NoneText ELSE value
    IN  [home_cards_limit |-> Max(1, parse_int_like(StrOf(settings.home_cards_limit), 250)),
         guides_page_size |-> Max(50, parse_int_like(StrOf(settings.guides_page_size), 500)),
         related_links_count |-> Max(2, parse_int_like(StrOf(settings.related_links_count), 6)),
         sitemap_chunk_size |-> Max(1, parse_int_like(StrOf(settings.sitemap_chunk_size), 40000)),
         indexnow_key |-> first_non_empty(settings.indexnow_key, <<>>),
         indexnow_submit |-> parse_bool_like(settings.indexnow_submit, FALSE),
         indexnow_batch_size |-> Max(1, parse_int_like(StrOf(settings.indexnow_batch_size), DefaultBatchSize))]

\* what a numeric setting may hold: nothing, "abc", "", "-5", " 2.9", "60"
NumericSettings ==
    { None, <<"a", "b", "c">>, <<>>, <<"-", "5">>, <<" ", "2", ".", "9">>, <<"6", "0">> }

InitMain ==
    /\ ms_settings \in [home_cards_limit : {None, <<"-", "5">>},
                        guides_page_size : NumericSettings,
                        related_links_count : NumericSettings,
                        sitemap_chunk_size : NumericSettings,
                        indexnow_key : {None, <<" ", "k", " ">>},
                        indexnow_submit : {None, <<"T", "r", "u", "e">>, <<"m", "a", "y", "b", "e">>},
                        indexnow_batch_size : NumericSettings,
                        top_n : NumericSettings]
    /\ ms_config = <<>>
    /\ ms_top_n = 0
    /\ mspc = "call"
    /\ IdleGen
    /\ IdlePick
    /\ IdleIdx
    /\ IdleChunk
    /\ IdleSitemap
    /\ IdleList
    /\ IdleRel
    /\ IdleSeed
    /\ IdleCollage
    /\ IdleRun

\* main from merge_settings to the call of generate
MainBuildSettings ==
    /\ mspc = "call"
    /\ ms_config' = main_config(ms_settings)
    /\ ms_top_n' = main_top_n(IF ms_settings.top_n = None THEN NoneText ELSE ms_settings.top_n)
    /\ mspc' = "built"
    /\ UNCHANGED <<ms_settings, genVars, pickVars, idxVars, chunkVars, sitemapVars, listVars,
                   relVars, seedVars, collageVars, runVars>>

SpecMain == InitMain /\ [][MainBuildSettings]_vars

\* the values float() rejects among NumericSettings: absent, "abc", ""
MalformedSettings == { None, <<"a", "b", "c">>, <<>> }

\* C24: whatever the settings hold (absent, malformed, negative), the
\* effective settings have listing page size >= 50, related-link count >= 2,
\* sitemap chunk size >= 1, notification batch size >= 1 and items per
\* keyword >= 3; a malformed numeric value gives the default 500, 6, 40000,
\* 10000, 10, and main goes on to the call of generate.
C24_EffectiveSettings ==
    mspc = "built" =>
        /\ ms_config.guides_page_size >= 50
        /\ ms_config.related_links_count >= 2
        /\ ms_config.sitemap_chunk_size >= 1
        /\ ms_config.indexnow_batch_size >= 1
        /\ ms_top_n >= 3
        /\ ms_settings.guides_page_size \in MalformedSettings => ms_config.guides_page_size = 500
        /\ ms_settings.related_links_count \in MalformedSettings => ms_config.related_links_count = 6
        /\ ms_settings.sitemap_chunk_size \in MalformedSettings => ms_config.sitemap_chunk_size = 40000
        /\ ms_settings.indexnow_batch_size \in MalformedSettings => ms_config.indexnow_batch_size = 10000
        /\ ms_settings.top_n \in MalformedSettings => ms_top_n = 10

\* a malformed page size, a negative related-link count, a fractional chunk
\* size, no batch size and top_n "60"
C24_Witness ==
    /\ mspc = "built"
    /\ ms_settings.guides_page_size = <<"a", "b", "c">>
    /\ ms_settings.related_links_count = <<"-", "5">>
    /\ ms_settings.sitemap_chunk_size = <<" ", "2", ".", "9">>
    /\ ms_settings.indexnow_batch_size = None
    /\ ms_settings.top_n = <<"6", "0">>
    /\ ms_config.guides_page_size = 500
    /\ ms_config.related_links_count = 2
    /\ ms_config.sitemap_chunk_size = 2
    /\ ms_config.indexnow_batch_size = 10000
    /\ ms_top_n = 60

-----------------------------------------------------------------------------
(* A whole run: main's call of generate, the files written, the notification *)

\* the article page of a build: its keyword and slug, its collage, the
\* products it lists and the related pages of its slug
render_article_page(build, related_map) ==
    [kind |-> "article",
     keyword |-> build.keyword,
     slug |-> build.slug,
     feature_images |-> build.feature_images,
     feature_layout |-> build.feature_layout,
     products |-> [i \in 1..Len(build.products) |-> build.products[i].product_name],
     related |-> DictGet(related_map, build.slug, <<>>)]

\* generate after the article loop, up to the notification: the files written
\* onto `files`, in the order of the code. pages is what write_static_pages
\* renders, all_pages the names of the article and static pages,
\* all_public_urls the absolute URLs of sorted(set(all_pages))
write_site_files(files, pages, all_pages, all_public_urls, cfg) ==
    LET RECURSIVE WriteAll(_, _)
        WriteAll(fs, pairs) ==
            IF pairs = <<>> THEN fs
            ELSE WriteAll(DictPut(fs, Head(pairs)[1], Head(pairs)[2]), Tail(pairs))
        \* deprecated_pages = ["blog.html"] is unlinked when it exists
        Unlink(fs, name) == [n \in (DOMAIN fs) \ {name} |-> fs[n]]
        clean_key == Strip(cfg.indexnow_key)
    IN  (<<"i", "n", "d", "e", "x", "n", "o", "w", "-", "u", "r", "l", "s", ".", "t", "x", "t">> :> [kind |-> "manifest", urls |-> all_public_urls])
        @@ (IF clean_key = <<>> THEN EmptyDict
            ELSE (clean_key \o <<".", "t", "x", "t">>) :> [kind |-> "key", text |-> clean_key])
        @@ (<<"_", "r", "e", "d", "i", "r", "e", "c", "t", "s">> :> [kind |-> "cloudflare"])
        @@ (<<"_", "h", "e", "a", "d", "e", "r", "s">> :> [kind |-> "cloudflare"])
        @@ (<<"r", "o", "b", "o", "t", "s", ".", "t", "x", "t">> :> [kind |-> "robots", sitemap |-> absolute_url(SitemapName)])
        @@ write_sitemap(all_pages, cfg.sitemap_chunk_size)
        @@ Unlink(WriteAll(files, pages), <<"b", "l", "o", "g", ".", "h", "t", "m", "l">>)

\* the rows of the runs: no row at all; one keyword with too few products;
\* "cap", "sox"; "sox", "Sox", "sox 2"; "index", "blog" and a keyword with too
\* few products; "about", "cap". Every other product has an image.
RunInputs ==
    LET WithImages(items) ==
            [i \in 1..Len(items) |->
                [image_url |-> IF i % 2 = 1 THEN <<"u">> \o IntToStr(i) ELSE <<>>] @@ items[i]]
        Few(keyword) == [keyword |-> keyword, items |-> WithImages(ItemsTwoDistinct)]
        Enough(keyword) == [keyword |-> keyword, items |-> WithImages(ItemsFourDistinct)]
    IN  { <<>>,
          <<Few(KwSox)>>,
          <<Enough(KwCap), Enough(KwSox)>>,
          <<Enough(KwSox), Enough(KwSoxUpper), Enough(KwSox2)>>,
          <<Enough(<<"i", "n", "d", "e", "x">>), Enough(<<"b", "l", "o", "g">>), Few(KwSox)>>,
          <<Enough(<<"a", "b", "o", "u", "t">>), Enough(KwCap)>> }

\* the settings of the runs: the notification key absent or " k ", the submit
\* flag absent or "True", the batch size absent or "6"; every other setting absent
RunConfigs ==
    { main_config([home_cards_limit |-> None, guides_page_size |-> None,
                   related_links_count |-> None, sitemap_chunk_size |-> None,
                   indexnow_key |-> key, indexnow_submit |-> submit,
                   indexnow_batch_size |-> size]) :
        key \in {None, <<" ", "k", " ">>},
        submit \in {None, <<"T", "r", "u", "e">>},
        size \in {None, <<"6">>} }

InitRun ==
    /\ grouped \in RunInputs
    /\ keywords \in KeywordArgs
    /\ top_n = main_top_n(NoneText)
    /\ requested = {}
    /\ ordered_groups = <<>>
    /\ builds = <<>>
    /\ used_slugs = EmptyDict
    /\ gpc = "load"
    /\ gi = 0
    /\ out_files = EmptyDict
    /\ config \in RunConfigs
    /\ urls = <<>>
    /\ result = <<>>
    /\ batches = <<>>
    /\ bi = 0
    /\ posted = <<>>
    /\ responses = <<>>
    /\ ipc = "idle"
    /\ IdlePick
    /\ IdleSite

RunRest == <<pickVars, chunkVars, sitemapVars, listVars, relVars, seedVars, collageVars, mainVars>>

\* the builds whose collage is prepared
CollagesReady == {i \in 1..Len(builds) : "feature_images" \in DOMAIN builds[i]}

\* one iteration of "for build in builds": prepare_feature_collage with the
\* variant its seeded random source picks
RunPrepareCollage ==
    /\ gpc = "built"
    /\ Cardinality(CollagesReady) < Len(builds)
    /\ LET i == Cardinality(CollagesReady) + 1
       IN  \E choice \in 1..Len(feature_style_variants) :
              builds' = [builds EXCEPT ![i] = prepare_feature_collage(builds[i], choice) @@ builds[i]]
    /\ UNCHANGED <<out_files, grouped, keywords, requested, top_n, ordered_groups, used_slugs,
                   gpc, gi, idxVars, runVars, RunRest>>

\* one iteration of the article loop: <slug>.html is written
RunWriteArticle ==
    /\ gpc = "built"
    /\ Cardinality(CollagesReady) = Len(builds)
    /\ Len(article_pages) < Len(builds)
    /\ LET build == builds[Len(article_pages) + 1]
           related_map == build_related_map(builds, config.related_links_count)
           out == build.slug \o <<".", "h", "t", "m", "l">>
       IN  /\ out_files' = DictPut(out_files, out, render_article_page(build, related_map))
           /\ article_pages' = Append(article_pages, out)
    /\ UNCHANGED <<grouped, keywords, requested, top_n, ordered_groups, builds, used_slugs,
                   gpc, gi, idxVars, static_pages, indexnow_result, RunRest>>

\* RunWriteSite submitting whenever a key is set, whatever the submit flag
RunWriteSiteIgnoringFlag ==
    /\ gpc = "built"
    /\ Cardinality(CollagesReady) = Len(builds)
    /\ Len(article_pages) = Len(builds)
    /\ \E pages \in {write_static_pages(builds, config.guides_page_size)} :
       \E static \in {[i \in 1..Len(pages) |-> pages[i][1]]} :
       \E names \in {unique_pages_of(article_pages \o static)} :
       \E all_public_urls \in {[i \in 1..Len(names) |-> absolute_url(names[i])]} :
       \E clean_key \in {Strip(config.indexnow_key)} :
          /\ out_files' = write_site_files(out_files, pages, article_pages \o static,
                                           all_public_urls, config)
          /\ static_pages' = static
          /\ indexnow_result' =
                [enabled |-> clean_key # <<>>,
                 submitted |-> FALSE,
                 key_file |-> IF clean_key = <<>> THEN <<>> ELSE clean_key \o <<".", "t", "x", "t">>,
                 manifest_file |-> <<"i", "n", "d", "e", "x", "n", "o", "w", "-", "u", "r", "l", "s", ".", "t", "x", "t">>,
                 url_count |-> Len(all_public_urls)]
          /\ IF config.indexnow_key # <<>>
             THEN /\ urls' = all_public_urls
                  /\ result' = ResultInit(config)
                  /\ ipc' = "call"
                  /\ gpc' = "submit"
             ELSE /\ gpc' = "returned"
                  /\ UNCHANGED <<urls, result, ipc>>
    /\ UNCHANGED <<grouped, keywords, requested, top_n, ordered_groups, builds, used_slugs, gi,
                   config, batches, bi, posted, responses, article_pages, RunRest>>

\* after the article loop: the static pages, the sitemap, robots.txt, the
\* Cloudflare files, the key file and the URL manifest; then either the call
\* of submit_indexnow or the return
RunWriteSite ==
    /\ gpc = "built"
    /\ Cardinality(CollagesReady) = Len(builds)
    /\ Len(article_pages) = Len(builds)
    /\ \E pages \in {write_static_pages(builds, config.guides_page_size)} :
       \E static \in {[i \in 1..Len(pages) |-> pages[i][1]]} :
       \E names \in {unique_pages_of(article_pages \o static)} :
       \E all_public_urls \in {[i \in 1..Len(names) |-> absolute_url(names[i])]} :
       \E clean_key \in {Strip(config.indexnow_key)} :
          /\ out_files' = write_site_files(out_files, pages, article_pages \o static,
                                           all_public_urls, config)
          /\ static_pages' = static
          /\ indexnow_result' =
                [enabled |-> clean_key # <<>>,
                 submitted |-> FALSE,
                 key_file |-> IF clean_key = <<>> THEN <<>> ELSE clean_key \o <<".", "t", "x", "t">>,
                 manifest_file |-> <<"i", "n", "d", "e", "x", "n", "o", "w", "-", "u", "r", "l", "s", ".", "t", "x", "t">>,
                 url_count |-> Len(all_public_urls)]
          /\ IF config.indexnow_submit /\ config.indexnow_key # <<>>
             THEN /\ urls' = all_public_urls
                  /\ result' = ResultInit(config)
                  /\ ipc' = "call"
                  /\ gpc' = "submit"
             ELSE /\ gpc' = "returned"
                  /\ UNCHANGED <<urls, result, ipc>>
    /\ UNCHANGED <<grouped, keywords, requested, top_n, ordered_groups, builds, used_slugs, gi,
                   config, batches, bi, posted, responses, article_pages, RunRest>>

\* RunReturn giving up the pages when a batch has failed
RunReturnNoPagesOnFailure ==
    /\ gpc = "submit"
    /\ ipc = "returned"
    /\ indexnow_result' = result @@ indexnow_result
    /\ article_pages' = IF result.failed_batches > 0 THEN <<>> ELSE article_pages
    /\ static_pages' = IF result.failed_batches > 0 THEN <<>> ELSE static_pages
    /\ gpc' = "returned"
    /\ UNCHANGED <<out_files, grouped, keywords, requested, top_n, ordered_groups, builds,
                   used_slugs, gi, idxVars, RunRest>>

\* submit_indexnow has returned: indexnow_result.update(...), and the return
RunReturn ==
    /\ gpc = "submit"
    /\ ipc = "returned"
    /\ indexnow_result' = result @@ indexnow_result
    /\ gpc' = "returned"
    /\ UNCHANGED <<out_files, grouped, keywords, requested, top_n, ordered_groups, builds,
                   used_slugs, gi, idxVars, article_pages, static_pages, RunRest>>

\* main after generate returned pages: generation_report.json
MainReport ==
    /\ gpc = "returned"
    /\ out_files' = DictPut(out_files, <<"g", "e", "n", "e", "r", "a", "t", "i", "o", "n", "_", "r", "e", "p", "o", "r", "t", ".", "j", "s", "o", "n">>,
                            [kind |-> "report", article_files |-> article_pages,
                             static_files |-> static_pages, indexnow |-> indexnow_result])
    /\ gpc' = "reported"
    /\ UNCHANGED <<grouped, keywords, requested, top_n, ordered_groups, builds, used_slugs, gi,
                   idxVars, runVars, RunRest>>

\* generate hands submit_indexnow a trimmed key and at least the home page,
\* so its two early returns are never taken here
NextRun ==
    \/ NextGen
    \/ RunPrepareCollage
    \/ RunWriteArticle
    \/ RunWriteSite
    \/ IdxCutBatches
    \/ BatchAccepted
    \/ BatchOtherStatus
    \/ BatchHTTPError
    \/ BatchURLError
    \/ BatchException
    \/ IdxReturn
    \/ RunReturn
    \/ MainReport

SpecRun == InitRun /\ [][NextRun]_vars

-----------------------------------------------------------------------------
(* Claims about a whole run *)

\* the files write_site_assets leaves
AssetFiles == DOMAIN write_site_assets(EmptyDict)

\* generate is past its keyword loop or has raised
PastLoop == gpc \notin {"load", "loop"}

\* C22 as stated: when the input has no valid rows, or no keyword group
\* qualifies, generate raises and the output directory holds nothing but the
\* static assets
C22_FatalInputRaises ==
    [](PastLoop /\ (grouped = <<>> \/ builds = <<>>) =>
          gpc = "raised" /\ DOMAIN out_files \subseteq AssetFiles)

\* C22, amended: with no valid rows generate raises before anything is written;
\* with rows but no qualifying keyword group it does not raise but returns
\* empty results once the assets are written, and main stops without a report.
\* In both cases the output directory holds nothing but the static assets: no
\* article, listing, static page, sitemap, robots, manifest or report file
C22_FatalInput ==
    /\ [](PastLoop /\ grouped = <<>> => gpc = "raised" /\ out_files = EmptyDict)
    /\ [](PastLoop /\ grouped # <<>> /\ builds = <<>> =>
             /\ gpc = "empty"
             /\ DOMAIN out_files = AssetFiles
             /\ article_pages = <<>>
             /\ static_pages = <<>>
             /\ indexnow_result = <<>>
             /\ posted = <<>>)
    /\ [](gpc \in {"raised", "empty"} => grouped = <<>> \/ builds = <<>>)

\* rows were loaded, none of the groups qualified, and generate has returned
C22_Witness ==
    /\ gpc = "empty"
    /\ grouped # <<>>
    /\ ordered_groups # <<>>
    /\ DOMAIN out_files = AssetFiles

ReportName == <<"g", "e", "n", "e", "r", "a", "t", "i", "o", "n", "_", "r", "e", "p", "o", "r", "t", ".", "j", "s", "o", "n">>

ManifestName == <<"i", "n", "d", "e", "x", "n", "o", "w", "-", "u", "r", "l", "s", ".", "t", "x", "t">>

\* the file names of the articles, in the order of the builds
ArticleNames == [i \in 1..Len(builds) |-> builds[i].slug \o <<".", "h", "t", "m", "l">>]

\* the names of the static pages write_static_pages returns
StaticNames ==
    LET pages == write_static_pages(builds, config.guides_page_size)
    IN  [i \in 1..Len(pages) |-> pages[i][1]]

\* what generate writes for the builds and the settings of the state, whatever
\* the endpoint answers
GeneratedFiles ==
    LET related_map == build_related_map(builds, config.related_links_count)
        RECURSIVE Articles(_)
        Articles(k) ==
            IF k = 0 THEN write_site_assets(EmptyDict)
            ELSE DictPut(Articles(k - 1), ArticleNames[k],
                         render_article_page(builds[k], related_map))
        names == unique_pages_of(ArticleNames \o StaticNames)
    IN  write_site_files(Articles(Len(builds)),
                         write_static_pages(builds, config.guides_page_size),
                         ArticleNames \o StaticNames,
                         [i \in 1..Len(names) |-> absolute_url(names[i])],
                         config)

\* the output directory without main's report
OutputOfGenerate == [n \in (DOMAIN out_files) \ {ReportName} |-> out_files[n]]

\* generate has written every file and is submitting, or has returned
SiteWritten == gpc \in {"submit", "returned", "reported"}

RunRelatedMap == build_related_map(builds, config.related_links_count)

\* the files of the output directory that hold an article
ArticleFiles ==
    {n \in DOMAIN out_files : "kind" \in DOMAIN out_files[n] /\ out_files[n].kind = "article"}

\* C27: at the end of generate, for every build the file <slug>.html holds
\* that build's article, and there are as many article files as builds
C27_ArticleFilesKept ==
    gpc \in {"returned", "reported"} =>
        /\ \A i \in 1..Len(builds) :
              /\ ArticleNames[i] \in DOMAIN out_files
              /\ out_files[ArticleNames[i]] = render_article_page(builds[i], RunRelatedMap)
        /\ Cardinality(ArticleFiles) = Len(builds)

\* the same, for runs whose slugs are pairwise distinct and none of which is
\* the name of a page written or removed after the articles
C27_HoldsWithoutClash ==
    /\ gpc \in {"returned", "reported"}
    /\ \A i, j \in 1..Len(builds) : i # j => builds[i].slug # builds[j].slug
    /\ \A i \in 1..Len(builds) :
          /\ ArticleNames[i] \notin {static_pages[k] : k \in 1..Len(static_pages)}
          /\ ArticleNames[i] # <<"b", "l", "o", "g", ".", "h", "t", "m", "l">>
    => /\ \A i \in 1..Len(builds) :
              /\ ArticleNames[i] \in DOMAIN out_files
              /\ out_files[ArticleNames[i]] = render_article_page(builds[i], RunRelatedMap)
       /\ Cardinality(ArticleFiles) = Len(builds)

\* the settings allow the notification
SubmitEnabled == config.indexnow_submit /\ config.indexnow_key # <<>>

\* the absolute URLs of the article and static pages generate returns
PublicUrls ==
    {absolute_url(article_pages[i]) : i \in 1..Len(article_pages)}
        \cup {absolute_url(static_pages[i]) : i \in 1..Len(static_pages)}

KeyFileName == Strip(config.indexnow_key) \o <<".", "t", "x", "t">>

\* C30: submit_indexnow is called and batches are posted only when the submit
\* flag is true and the key is non-empty; otherwise nothing is posted and the
\* notification result has submitted = false. Either way the manifest lists
\* every public URL, and the key file is written exactly when a key is set
C30_SubmitOnlyWhenEnabled ==
    /\ [](ipc # "idle" \/ posted # <<>> => SubmitEnabled)
    /\ [](gpc \in {"returned", "reported"} /\ ~SubmitEnabled =>
             /\ ipc = "idle"
             /\ posted = <<>>
             /\ indexnow_result.submitted = FALSE
             /\ "failed_batches" \notin DOMAIN indexnow_result)
    /\ [](gpc \in {"returned", "reported"} =>
             /\ ManifestName \in DOMAIN out_files
             /\ LET listed == out_files[ManifestName].urls
                IN  /\ {listed[i] : i \in 1..Len(listed)} = PublicUrls
                    /\ indexnow_result.url_count = Cardinality(PublicUrls)
             /\ Strip(config.indexnow_key) # <<>> =>
                   /\ KeyFileName \in DOMAIN out_files
                   /\ out_files[KeyFileName] = [kind |-> "key", text |-> Strip(config.indexnow_key)]
                   /\ indexnow_result.key_file = KeyFileName
             /\ Strip(config.indexnow_key) = <<>> =>
                   /\ \A n \in DOMAIN out_files :
                         "kind" \in DOMAIN out_files[n] => out_files[n].kind # "key"
                   /\ indexnow_result.key_file = <<>>)

\* a key is set but the submit flag is off: generate has returned, nothing was
\* posted, the key file and the manifest are there
C30_Witness ==
    /\ gpc = "returned"
    /\ config.indexnow_key # <<>>
    /\ ~config.indexnow_submit
    /\ posted = <<>>
    /\ indexnow_result.submitted = FALSE
    /\ indexnow_result.enabled
    /\ {ManifestName, KeyFileName} \subseteq DOMAIN out_files
    /\ Len(out_files[ManifestName].urls) > Len(article_pages)

====
